---- MODULE Spec2Model ----
(***************************************************************************)
(* GreenDiskVisualizer: the size hierarchy (scanner.py / mft_scanner.py),  *)
(* the generic directory walker, the MFT-accelerated backend, the scan     *)
(* dispatcher with its progress events, the App's scan button, worker      *)
(* thread and progress updater (main.py), and the squarified layout        *)
(* (treemap.py).                                                           *)
(*                                                                         *)
(* A Python str is a sequence of one-character strings; a dict is a        *)
(* function whose DOMAIN is the set of keys; a float is an exact fraction  *)
(* <<numerator, denominator>>, so the rounding of doubles is not modelled. *)
(*                                                                         *)
(* Specifications: Spec (one scan), SpecWide (one scan of a wide root),    *)
(* SpecApp (clicks at any moment), SpecAdd (any sequence of adds),         *)
(* SpecAddSteps (the adds statement by statement), SpecMft (Stages A and B *)
(* of the accelerated backend on any answers of the volume), SpecTreemap   *)
(* (one build_treemap call), SpecEta (the progress updater).               *)
(***************************************************************************)
EXTENDS Integers, Sequences, FiniteSets, TLC

VARIABLES
    hierarchy,        \* the shared hierarchy dict {name: {"total", "children"}}
    addLog,           \* history: the add calls made so far, in call order
    fs,               \* environment: the directory tree below the scan root
    faults,           \* environment: the operations that raise OSError
    env,              \* environment: platform and volume probe
    options,          \* the ScanOptions of the scan
    pc,               \* where the worker thread is
    backend,          \* the backend whose locals are live ("none" before)
    stack,            \* _scan_via_scandir: the LIFO of pending directories
    error_count,      \* locals of the running backend
    file_count,
    folder_count,
    scanned_size,
    largest_file,     \* <<>> for None, else <<FileInfo>>
    file_type_stats,  \* dict ext -> {"total_size", "file_count"}
    entries,          \* scan_mft: the flat record table of Stage A
    dir_compact,      \* scan_mft: the ordered dict ref -> (parent_ref, name)
    all_dir_refs,     \* scan_mft: the directory references Stage C still has to list
    processed_dirs,   \* scan_mft: Stage C counter
    result,           \* <<>> until scan_path returns, then <<ScanResult>>
    ui,               \* the App: "scanning", then "finished" or "failed"
    hist,             \* history of the run (calls made, errors raised)
    events,           \* the progress_callback calls of the scan, in call order
    app,              \* the App: posted notifications, updater flag, threads
    treemap,          \* a build_treemap call: its arguments and what it returned
    estimator,        \* the progress updater: clock, ratio, sample window, ETA
    mft,              \* Stages A and B step by step: volume, cursor, queue
    handles,          \* history: the volume handles the scan opened, with their CloseHandle calls
    adding            \* an add in progress: its parts, size and position

scanVars == <<fs, faults, env, options, pc, backend, stack, error_count,
              file_count, folder_count, scanned_size, largest_file,
              file_type_stats, entries, dir_compact, all_dir_refs,
              processed_dirs, result, ui, hist, events, app, treemap,
              estimator, mft, handles, adding>>

vars == <<hierarchy, addLog, scanVars>>

(***************************************************************************)
(* Strings                                                                 *)
(***************************************************************************)
SEP == "\\"

\* str.lower() on the characters the model uses
LowerChar(c) ==
    CASE c = "A" -> "a"
      [] c = "B" -> "b"
      [] c = "R" -> "r"
      [] c = "X" -> "x"
      [] c = "Z" -> "z"
      [] OTHER -> c

Lower(s) == [i \in 1..Len(s) |-> LowerChar(s[i])]

\* str.replace("/", "\\")
ReplaceSlash(s) == [i \in 1..Len(s) |-> IF s[i] = "/" THEN SEP ELSE s[i]]

\* str.split(sep): always at least one part, empty parts kept
RECURSIVE SplitFrom(_, _, _)
SplitFrom(s, sep, cur) ==
    IF s = <<>> THEN <<cur>>
    ELSE IF Head(s) = sep THEN <<cur>> \o SplitFrom(Tail(s), sep, <<>>)
    ELSE SplitFrom(Tail(s), sep, Append(cur, Head(s)))

Split(s, sep) == SplitFrom(s, sep, <<>>)

\* "needle in haystack"
Contains(hay, needle) ==
    \E i \in 1..(Len(hay) - Len(needle) + 1) :
        SubSeq(hay, i, i + Len(needle) - 1) = needle

\* str.strip(): drop leading and trailing blanks
RECURSIVE LStrip(_)
LStrip(s) == IF s # <<>> /\ Head(s) = " " THEN LStrip(Tail(s)) ELSE s

RECURSIVE RStrip(_)
RStrip(s) ==
    IF s # <<>> /\ s[Len(s)] = " " THEN RStrip(SubSeq(s, 1, Len(s) - 1)) ELSE s

Strip(s) == RStrip(LStrip(s))

\* str.lstrip("\\/") and str.rstrip("\\/")
RECURSIVE LStripSeps(_)
LStripSeps(s) ==
    IF s # <<>> /\ Head(s) \in {SEP, "/"} THEN LStripSeps(Tail(s)) ELSE s

RECURSIVE RStripSeps(_)
RStripSeps(s) ==
    IF s # <<>> /\ s[Len(s)] \in {SEP, "/"}
    THEN RStripSeps(SubSeq(s, 1, Len(s) - 1)) ELSE s

(***************************************************************************)
(* The hierarchy                                                           *)
(***************************************************************************)
EmptyDict == [k \in {} |-> 0]

NewNode == [total |-> 0, children |-> EmptyDict]

\* dict.setdefault(key, {"total": 0, "children": {}}) followed by the update
\* of the returned node
SetDefault(d, key) == IF key \in DOMAIN d THEN d[key] ELSE NewNode

Put(d, key, node) ==
    [k \in (DOMAIN d) \cup {key} |-> IF k = key THEN node ELSE d[k]]

\* scanner.py, the loop over parts[:-1]: add size to every directory on the way
RECURSIVE WalkParts(_, _, _)
WalkParts(node, dirParts, size) ==
    IF dirParts = <<>> THEN node
    ELSE LET child == SetDefault(node, Head(dirParts))
         IN  Put(node, Head(dirParts),
                 [total    |-> child.total + size,
                  children |-> WalkParts(child.children, Tail(dirParts), size)])

\* variant: the size replaces a directory's total instead of adding to it
RECURSIVE WalkPartsAssigning(_, _, _)
WalkPartsAssigning(node, dirParts, size) ==
    IF dirParts = <<>> THEN node
    ELSE LET child == SetDefault(node, Head(dirParts))
         IN  Put(node, Head(dirParts),
                 [total    |-> size,
                  children |-> WalkPartsAssigning(child.children, Tail(dirParts), size)])

add_size_to_hierarchy_Assigning(h, rel_path, size) ==
    LET parts == Split(ReplaceSlash(rel_path), SEP)
    IN  IF Len(parts) <= 1
        THEN LET entry == SetDefault(h, parts[1])
             IN  Put(h, parts[1],
                     [total |-> size, children |-> entry.children])
        ELSE WalkPartsAssigning(h, SubSeq(parts, 1, Len(parts) - 1), size)

\* variant: the first directory on the way is created but not credited
add_size_to_hierarchy_SkipsTop(h, rel_path, size) ==
    LET parts == Split(ReplaceSlash(rel_path), SEP)
    IN  IF Len(parts) <= 1
        THEN LET entry == SetDefault(h, parts[1])
             IN  Put(h, parts[1],
                     [total |-> entry.total + size, children |-> entry.children])
        ELSE LET child == SetDefault(h, parts[1])
             IN  Put(h, parts[1],
                     [total    |-> child.total,
                      children |-> WalkParts(child.children,
                                             SubSeq(parts, 2, Len(parts) - 1), size)])

add_size_to_hierarchy(h, rel_path, size) ==
    LET parts == Split(ReplaceSlash(rel_path), SEP)
    IN  IF Len(parts) <= 1
        THEN LET entry == SetDefault(h, parts[1])
             IN  Put(h, parts[1],
                     [total |-> entry.total + size, children |-> entry.children])
        ELSE WalkParts(h, SubSeq(parts, 1, Len(parts) - 1), size)

\* mft_scanner.py carries its own copy of the function
RECURSIVE MftWalkParts(_, _, _)
MftWalkParts(node, dirParts, size) ==
    IF dirParts = <<>> THEN node
    ELSE LET child == SetDefault(node, Head(dirParts))
         IN  Put(node, Head(dirParts),
                 [total    |-> child.total + size,
                  children |-> MftWalkParts(child.children, Tail(dirParts), size)])

mft_add_size_to_hierarchy(h, rel_path, size) ==
    LET parts == Split(ReplaceSlash(rel_path), SEP)
    IN  IF Len(parts) <= 1
        THEN LET entry == SetDefault(h, parts[1])
             IN  Put(h, parts[1],
                     [total |-> entry.total + size, children |-> entry.children])
        ELSE MftWalkParts(h, SubSeq(parts, 1, Len(parts) - 1), size)

\* node.setdefault(key, {"total": 0, "children": {}}) on the children map
\* reached from the root through the names of at
RECURSIVE SetDefaultAt(_, _, _)
SetDefaultAt(d, at, key) ==
    IF at = <<>>
    THEN IF key \in DOMAIN d THEN d ELSE Put(d, key, NewNode)
    ELSE Put(d, Head(at),
             [d[Head(at)] EXCEPT !.children = SetDefaultAt(@, Tail(at), key)])

\* child["total"] += size on the node with path p
RECURSIVE AddTotalAt(_, _, _)
AddTotalAt(d, p, size) ==
    IF Len(p) = 1
    THEN Put(d, p[1], [d[p[1]] EXCEPT !.total = @ + size])
    ELSE Put(d, Head(p),
             [d[Head(p)] EXCEPT !.children = AddTotalAt(@, Tail(p), size)])

\* variant: the first directory on the way is not credited
CreditAt_SkipsTop(d, p, size) ==
    IF Len(p) = 1 THEN d ELSE AddTotalAt(d, p, size)

\* lines 119 and 124: the node just obtained is credited
CreditAt(d, p, size) ==
    AddTotalAt(d, p, size)

\* the names the add walks through: parts[0] for a single component
\* (lines 117-119), else parts[:-1] (lines 121-125)
PartsToCredit(rel_path) ==
    LET parts == Split(ReplaceSlash(rel_path), SEP)
    IN  IF Len(parts) <= 1 THEN <<parts[1]>>
        ELSE SubSeq(parts, 1, Len(parts) - 1)

\* the add of backend impl ("scandir" or "mft")
AddBy(impl, h, rel_path, size) ==
    IF impl = "mft" THEN mft_add_size_to_hierarchy(h, rel_path, size)
    ELSE add_size_to_hierarchy(h, rel_path, size)

(***************************************************************************)
(* Reading a hierarchy                                                     *)
(***************************************************************************)
\* the paths (sequences of names) of all nodes of a hierarchy
RECURSIVE NodePaths(_)
NodePaths(h) ==
    UNION { {<<k>>} \cup { <<k>> \o p : p \in NodePaths(h[k].children) }
            : k \in DOMAIN h }

RECURSIVE NodeAt(_, _)
NodeAt(h, p) ==
    IF Len(p) = 1 THEN h[p[1]] ELSE NodeAt(h[p[1]].children, Tail(p))

RECURSIVE SumTotals(_)
SumTotals(h) ==
    IF DOMAIN h = {} THEN 0
    ELSE LET k == CHOOSE x \in DOMAIN h : TRUE
         IN  h[k].total + SumTotals([j \in (DOMAIN h) \ {k} |-> h[j]])

\* the components of an added path, and its directory part
PartsOf(rel_path) == Split(ReplaceSlash(rel_path), SEP)
DirPartsOf(rel_path) == SubSeq(PartsOf(rel_path), 1, Len(PartsOf(rel_path)) - 1)

RECURSIVE SumSizes(_, _)
SumSizes(log, p) ==
    IF log = <<>> THEN 0
    ELSE (IF DirPartsOf(Head(log).rel) = p THEN Head(log).size ELSE 0)
         + SumSizes(Tail(log), p)

RECURSIVE ApplyAll(_, _)
ApplyAll(h, log) ==
    IF log = <<>> THEN h
    ELSE ApplyAll(AddBy(Head(log).impl, h, Head(log).rel, Head(log).size),
                  Tail(log))

(***************************************************************************)
(* More of str and os.path                                                 *)
(***************************************************************************)
Count(s, c) == Cardinality({i \in 1..Len(s) : s[i] = c})

StartsWith(s, c) == s # <<>> /\ Head(s) = c

\* DirEntry.path: the scandir argument joined with the entry's name
Join(dir, name) ==
    IF dir = <<>> \/ dir[Len(dir)] \in {SEP, "/", ":"}
    THEN dir \o name
    ELSE dir \o <<SEP>> \o name

\* "\\".join(parts)
RECURSIVE JoinParts(_)
JoinParts(parts) ==
    IF parts = <<>> THEN <<>>
    ELSE IF Len(parts) = 1 THEN parts[1]
    ELSE parts[1] \o <<SEP>> \o JoinParts(Tail(parts))

\* os.path.splitext(name)[1]: from the last dot on, unless only dots precede it
SplitExt(name) ==
    LET dots == {i \in 1..Len(name) : name[i] = "."}
    IN  IF dots = {} THEN <<>>
        ELSE LET d == CHOOSE i \in dots : \A j \in dots : j <= i
             IN  IF \E j \in 1..(d - 1) : name[j] # "."
                 THEN SubSeq(name, d, Len(name))
                 ELSE <<>>

UNKNOWN == <<"u", "n", "k", "n", "o", "w", "n">>

\* os.path.splitext(name)[1].lower() or "unknown"
ExtOf(name) == IF Lower(SplitExt(name)) = <<>> THEN UNKNOWN ELSE Lower(SplitExt(name))

(***************************************************************************)
(* Exclusion matching                                                      *)
(***************************************************************************)
match_exclude(path, patterns) ==
    \E i \in 1..Len(patterns) :
        /\ Strip(patterns[i]) # <<>>
        /\ Contains(Lower(path), Lower(Strip(patterns[i])))

\* the copy of mft_scanner.py
mft_match_exclude(path, patterns) ==
    \E i \in 1..Len(patterns) :
        /\ Strip(patterns[i]) # <<>>
        /\ Contains(Lower(path), Lower(Strip(patterns[i])))

(***************************************************************************)
(* The environment: volumes, their trees, the errors they raise            *)
(***************************************************************************)
NTFS_ROOT_REF == 5

\* the mount point handed to ScanOptions.path: R:\
RootMount == <<"R", ":", SEP>>

Dir(d, n, r)      == [dir |-> d, name |-> n, kind |-> "dir", size |-> 0, ref |-> r]
Junction(d, n, r) == [dir |-> d, name |-> n, kind |-> "junction", size |-> 0, ref |-> r]
File(d, n, sz)    == [dir |-> d, name |-> n, kind |-> "file", size |-> sz, ref |-> 0]

\* a\x.txt (100), a\y.txt (50), b\z.txt (10)
TreeExample ==
    [exists  |-> TRUE,
     entries |-> << Dir(<<>>, <<"a">>, 6),
                    Dir(<<>>, <<"b">>, 7),
                    File(<< <<"a">> >>, <<"x", ".", "t", "x", "t">>, 100),
                    File(<< <<"a">> >>, <<"y", ".", "t", "x", "t">>, 50),
                    File(<< <<"b">> >>, <<"z", ".", "t", "x", "t">>, 10) >>]

\* x (4) in the root, a\b.t (5), a\c\z (4), B\y (5), and a junction j
TreeMixed ==
    [exists  |-> TRUE,
     entries |-> << File(<<>>, <<"x">>, 4),
                    Dir(<<>>, <<"a">>, 6),
                    Dir(<<>>, <<"B">>, 7),
                    Junction(<<>>, <<"j">>, 8),
                    File(<< <<"a">> >>, <<"b", ".", "t">>, 5),
                    Dir(<< <<"a">> >>, <<"c">>, 9),
                    File(<< <<"a">>, <<"c">> >>, <<"z">>, 4),
                    File(<< <<"B">> >>, <<"y">>, 5) >>]

\* the root path does not exist
TreeMissing == [exists |-> FALSE, entries |-> <<>>]

Trees == {TreeExample, TreeMixed, TreeMissing}

\* a wide root: WideDirs directories below it, files a\x (100), b\z (10) and
\* one file w (7) in the last directory
WideDirs == 15

WideNames == << <<"a">>, <<"b">>, <<"c">>, <<"d">>, <<"e">>, <<"f">>, <<"g">>,
               <<"h">>, <<"i">>, <<"k">>, <<"l">>, <<"m">>, <<"n">>, <<"o">>,
               <<"p">>, <<"q">>, <<"r">>, <<"s">> >>

TreeWide ==
    [exists  |-> TRUE,
     entries |-> [i \in 1..WideDirs |-> Dir(<<>>, WideNames[i], 5 + i)]
                 \o << File(<< <<"a">> >>, <<"x">>, 100),
                       File(<< <<"b">> >>, <<"z">>, 10),
                       File(<< WideNames[WideDirs] >>, <<"w">>, 7) >>]

PatternLists ==
    { <<>>,
      << <<"b">> >>,
      << <<>>, <<" ", "B", " ">> >> }

Depths == { <<>>, <<1>> }

\* shutil.disk_usage(options.path)[0]; 0 stands for the call failing
Capacities == {0, 100}

Envs ==
    { [platform |-> p[1], probe |-> p[2], total_size |-> c] :
        p \in { <<"Windows", "ok">>, <<"Windows", "no_handle">>,
                <<"Windows", "not_ntfs">>, <<"Linux", "ok">> },
        c \in Capacities }

MaxFaults == 1

EntryAt(e) == e.dir \o <<e.name>>

DirsOf(tree) ==
    {<<>>} \cup { EntryAt(tree.entries[i]) :
                  i \in {j \in 1..Len(tree.entries) : tree.entries[j].kind = "dir"} }

PossibleFaults(tree) ==
    { [op |-> "scandir", at |-> d] : d \in DirsOf(tree) }
    \cup { [op |-> o, at |-> EntryAt(tree.entries[i])] :
           o \in {"is_dir", "stat"}, i \in 1..Len(tree.entries) }

Raises(op, at) == [op |-> op, at |-> at] \in faults

\* the directory (as components below the root) a full path names
ComponentsOf(path) ==
    LET root_len == Len(RStripSeps(options.path))
        rel      == LStripSeps(SubSeq(path, root_len + 1, Len(path)))
    IN  IF rel = <<>> THEN <<>> ELSE Split(ReplaceSlash(rel), SEP)

Listing(components) == SelectSeq(fs.entries, LAMBDA e : e.dir = components)

IsDirectory(components) ==
    /\ fs.exists
    /\ \/ components = <<>>
       \/ \E i \in 1..Len(fs.entries) :
             /\ fs.entries[i].kind # "file"
             /\ EntryAt(fs.entries[i]) = components

\* os.scandir(path) raises OSError
ScandirRaises(path) ==
    \/ ~IsDirectory(ComponentsOf(path))
    \/ Raises("scandir", ComponentsOf(path))

FileInfo(path, name, size, ext) ==
    [path |-> path, name |-> name, size |-> size, file_type |-> ext]

\* variant: only the first file of a type is counted
BumpType_FirstOnly(stats, ext, size) ==
    LET old == IF ext \in DOMAIN stats THEN stats[ext]
               ELSE [total_size |-> 0, file_count |-> 0]
    IN  [k \in (DOMAIN stats) \cup {ext} |->
            IF k = ext THEN [total_size |-> old.total_size + size,
                             file_count |-> 1]
            ELSE stats[k]]

\* file_type_stats.setdefault(ext, {...}) and the two increments
BumpType(stats, ext, size) ==
    LET old == IF ext \in DOMAIN stats THEN stats[ext]
               ELSE [total_size |-> 0, file_count |-> 0]
    IN  [k \in (DOMAIN stats) \cup {ext} |->
            IF k = ext THEN [total_size |-> old.total_size + size,
                             file_count |-> old.file_count + 1]
            ELSE stats[k]]

(***************************************************************************)
(* Progress events. A ratio is an exact fraction <<numerator, denominator>> *)
(* with a positive denominator.                                            *)
(***************************************************************************)
Rat(n, d) == <<n, d>>

RatLe(a, b) == a[1] * b[2] <= b[1] * a[2]

RatLt(a, b) == a[1] * b[2] < b[1] * a[2]

RatEq(a, b) == a[1] * b[2] = b[1] * a[2]

RatMin(a, b) == IF RatLe(a, b) THEN a ELSE b

RatMax(a, b) == IF RatLe(a, b) THEN b ELSE a

\* progress_callback(files, folders, current_path, ratio); of the label only
\* whether it is a phase message is kept
ProgressEvent(files, folders, phase, ratio) ==
    [files |-> files, folders |-> folders, phase |-> phase, ratio |-> ratio]

\* variant: the ratio of the walker is not clamped
WalkerRatio_Unclamped(scanned) ==
    IF env.total_size > 0 /\ scanned > 0
    THEN Rat(scanned, env.total_size)
    ELSE Rat(0, 1)

\* scanner.py lines 249-251
WalkerRatio(scanned) ==
    IF env.total_size > 0 /\ scanned > 0
    THEN RatMin(Rat(999, 1000), Rat(scanned, env.total_size))
    ELSE Rat(0, 1)

\* variant: Stage C starts from ratio 0
MftRatio_NoReserve(p, total_dirs) ==
    RatMin(Rat(999, 1000), Rat(969 * p, 1000 * total_dirs))

\* mft_scanner.py lines 364-366: min(0.999, 0.03 + 0.969 * (p / total_dirs))
MftRatio(p, total_dirs) ==
    RatMin(Rat(999, 1000), Rat(30 * total_dirs + 969 * p, 1000 * total_dirs))

(***************************************************************************)
(* The generic walker: _scan_via_scandir                                   *)
(***************************************************************************)
\* the locals a backend starts with (hierarchy is the shared object)
FreshLocals(h, log) ==
    [error_count |-> 0, file_count |-> 0, folder_count |-> 0,
     scanned_size |-> 0, largest_file |-> <<>>, file_type_stats |-> EmptyDict,
     hierarchy |-> h, subdirs |-> <<>>,
     addLog |-> log, hit |-> {}, counted |-> {}, order |-> <<>>]

CurrentLocals ==
    [error_count |-> error_count, file_count |-> file_count,
     folder_count |-> folder_count, scanned_size |-> scanned_size,
     largest_file |-> largest_file, file_type_stats |-> file_type_stats,
     hierarchy |-> hierarchy, subdirs |-> <<>>,
     addLog |-> addLog, hit |-> hist.hit, counted |-> hist.counted,
     order |-> hist.order]

\* one OSError caught by an except clause that counts it
CountError(acc, op, at) ==
    [acc EXCEPT !.error_count = @ + 1,
                !.hit = @ \cup {[op |-> op, at |-> at]}]

\* _is_junction_or_symlink(entry): an OSError caught at lines 68-69 or 73-74
\* (the fault "stat" on the entry) makes it answer False, else it answers
\* whether the entry is a reparse point whose link can be read
is_junction_or_symlink(e) ==
    /\ ~Raises("stat", EntryAt(e))
    /\ e.kind = "junction"

\* variant: a file of equal size replaces the largest file
ScandirCountFile_LastOnTies(acc, e, path) ==
    LET size == e.size
        ext  == ExtOf(e.name)
        rel  == LStripSeps(SubSeq(path, Len(RStripSeps(options.path)) + 1, Len(path)))
    IN  [acc EXCEPT
            !.file_count = @ + 1,
            !.scanned_size = @ + size,
            !.file_type_stats = BumpType(@, ext, size),
            !.hierarchy = IF rel # <<>> THEN add_size_to_hierarchy(@, rel, size) ELSE @,
            !.addLog = IF rel # <<>>
                       THEN Append(@, [rel |-> rel, size |-> size, impl |-> "scandir"])
                       ELSE @,
            !.largest_file = IF @ = <<>> \/ size >= @[1].size
                             THEN <<FileInfo(path, e.name, size, ext)>> ELSE @,
            !.counted = @ \cup {EntryAt(e)},
            !.order = Append(@, EntryAt(e))]

\* scanner.py lines 218-244: an accepted file
ScandirCountFile(acc, e, path) ==
    LET size == e.size
        ext  == ExtOf(e.name)
        rel  == LStripSeps(SubSeq(path, Len(RStripSeps(options.path)) + 1, Len(path)))
    IN  [acc EXCEPT
            !.file_count = @ + 1,
            !.scanned_size = @ + size,
            !.file_type_stats = BumpType(@, ext, size),
            !.hierarchy = IF rel # <<>> THEN add_size_to_hierarchy(@, rel, size) ELSE @,
            !.addLog = IF rel # <<>>
                       THEN Append(@, [rel |-> rel, size |-> size, impl |-> "scandir"])
                       ELSE @,
            !.largest_file = IF @ = <<>> \/ size > @[1].size
                             THEN <<FileInfo(path, e.name, size, ext)>> ELSE @,
            !.counted = @ \cup {EntryAt(e)},
            !.order = Append(@, EntryAt(e))]

\* variant: a failing stat is skipped without being counted
ScandirEntry_StatErrorDropped(acc, e, current_dir) ==
    LET path == Join(current_dir, e.name)
    IN  IF Raises("is_dir", EntryAt(e)) THEN CountError(acc, "is_dir", EntryAt(e))
        ELSE IF e.kind # "file"
        THEN IF ~match_exclude(path, options.exclude_patterns)
             THEN IF ~options.follow_symlinks /\ is_junction_or_symlink(e)
                  THEN acc
                  ELSE [acc EXCEPT !.folder_count = @ + 1,
                                   !.subdirs = Append(@, path)]
             ELSE acc
        ELSE IF match_exclude(path, options.exclude_patterns) THEN acc
        ELSE IF Raises("stat", EntryAt(e)) THEN acc
        ELSE ScandirCountFile(acc, e, path)

\* scanner.py lines 190-244: the body of "for entry in it"
ScandirEntry(acc, e, current_dir) ==
    LET path == Join(current_dir, e.name)
    IN  IF Raises("is_dir", EntryAt(e)) THEN CountError(acc, "is_dir", EntryAt(e))
        ELSE IF e.kind # "file"
        THEN IF ~match_exclude(path, options.exclude_patterns)
             THEN IF ~options.follow_symlinks /\ is_junction_or_symlink(e)
                  THEN acc
                  ELSE [acc EXCEPT !.folder_count = @ + 1,
                                   !.subdirs = Append(@, path)]
             ELSE acc
        ELSE IF match_exclude(path, options.exclude_patterns) THEN acc
        ELSE IF Raises("stat", EntryAt(e)) THEN CountError(acc, "stat", EntryAt(e))
        ELSE ScandirCountFile(acc, e, path)

RECURSIVE ScandirLoop(_, _, _)
ScandirLoop(acc, listing, current_dir) ==
    IF listing = <<>> THEN acc
    ELSE ScandirLoop(ScandirEntry(acc, Head(listing), current_dir),
                     Tail(listing), current_dir)

\* variant: a directory skipped for its depth is counted as an error
ScandirTurn_DepthSkipCounted(acc, current_dir) ==
    LET root_sep_count == Count(RStripSeps(options.path), SEP)
        depth == Count(RStripSeps(current_dir), SEP) - root_sep_count
    IN  IF options.max_depth # <<>> /\ depth > options.max_depth[1]
        THEN CountError(acc, "scandir", ComponentsOf(current_dir))
        ELSE IF ScandirRaises(current_dir)
        THEN CountError(acc, "scandir", ComponentsOf(current_dir))
        ELSE ScandirLoop(acc, Listing(ComponentsOf(current_dir)), current_dir)

\* scanner.py lines 174-246: one turn of "while stack"
ScandirTurn(acc, current_dir) ==
    LET root_sep_count == Count(RStripSeps(options.path), SEP)
        depth == Count(RStripSeps(current_dir), SEP) - root_sep_count
    IN  IF options.max_depth # <<>> /\ depth > options.max_depth[1] THEN acc
        ELSE IF ScandirRaises(current_dir)
        THEN CountError(acc, "scandir", ComponentsOf(current_dir))
        ELSE ScandirLoop(acc, Listing(ComponentsOf(current_dir)), current_dir)

\* has the turn called os.scandir on current_dir
ScandirCalled(current_dir) ==
    ~(options.max_depth # <<>>
      /\ Count(RStripSeps(current_dir), SEP) - Count(RStripSeps(options.path), SEP)
           > options.max_depth[1])

ScanResult(method) ==
    [stats |-> [file_count |-> file_count, folder_count |-> folder_count,
                largest_file |-> largest_file,
                file_type_stats |-> file_type_stats],
     error_count |-> error_count,
     scan_method |-> method]

(***************************************************************************)
(* The accelerated backend: mft_scanner.py                                 *)
(***************************************************************************)
\* os.path.splitdrive(path)[0].rstrip(":")
Drive(path) == IF Len(path) >= 2 /\ path[2] = ":" THEN <<path[1]>> ELSE <<>>

\* _open_volume lines 75-82: a new handle, not closed yet
open_volume(hs, by) == Append(hs, [by |-> by, closes |-> 0])

\* _close_handle lines 86-87: CloseHandle on handle h
close_handle(hs, h) == [hs EXCEPT ![h].closes = @ + 1]

\* variant: the handle is closed only when the volume is NTFS
ProbeHandles_LeakWhenNotNtfs(hs, path) ==
    IF env.platform = "Windows" /\ Drive(path) # <<>> /\ env.probe # "no_handle"
    THEN IF env.probe = "ok"
         THEN close_handle(open_volume(hs, "can_use_mft"), Len(hs) + 1)
         ELSE open_volume(hs, "can_use_mft")
    ELSE hs

\* can_use_mft lines 107-117 on the handles: the volume is opened unless the
\* platform, the path or the open itself says no, probed, and closed
ProbeHandles(hs, path) ==
    IF env.platform = "Windows" /\ Drive(path) # <<>> /\ env.probe # "no_handle"
    THEN close_handle(open_volume(hs, "can_use_mft"), Len(hs) + 1)
    ELSE hs

mft_can_use_mft(path) ==
    /\ env.platform = "Windows"
    /\ Drive(path) # <<>>
    /\ env.probe = "ok"

\* variant: the platform alone decides
can_use_mft_PlatformOnly(path) ==
    env.platform = "Windows"

\* scanner.py _can_use_mft
can_use_mft(path) ==
    /\ env.platform = "Windows"
    /\ mft_can_use_mft(path)

ParentRef(tree, e) ==
    IF e.dir = <<>> THEN NTFS_ROOT_REF
    ELSE LET i == CHOOSE j \in 1..Len(tree.entries) :
                     /\ tree.entries[j].kind # "file"
                     /\ EntryAt(tree.entries[j]) = e.dir
         IN  tree.entries[i].ref

\* Stage C reports progress on every 15th directory
ProgressEvery == 15

\* an insertion-ordered dict ref -> (parent_ref, name)
HasRef(d, ref) == \E i \in 1..Len(d) : d[i].ref = ref

GetRef(d, ref) == d[CHOOSE i \in 1..Len(d) : d[i].ref = ref]

SetRef(d, item) ==
    IF HasRef(d, item.ref)
    THEN [i \in 1..Len(d) |-> IF d[i].ref = item.ref THEN item ELSE d[i]]
    ELSE Append(d, item)

FILE_ATTRIBUTE_DIRECTORY == 16

FILE_ATTRIBUTE_REPARSE_POINT == 1024

\* file_attrs & flag, for a flag that is one bit
HasAttr(file_attrs, flag) == (file_attrs \div flag) % 2 = 1

\* a 64-bit file reference is <<sequence number, record number>>: the upper
\* 16 and the lower 48 bits; & _REF_MASK keeps the lower 48
Masked(raw) == raw[2]

\* the output buffer starts with the 8-byte next reference number
CursorBytes == 8

\* the fixed part of a USN record: the name length is read at offset 56, the
\* name offset at 58
RecordHeader == 60

\* a USN record as it lies in the buffer; the name is UTF-16, two bytes a
\* character
UsnRecord(rec_len, file_ref, parent_ref, file_attrs, name_off, name) ==
    [rec_len |-> rec_len, file_ref |-> file_ref, parent_ref |-> parent_ref,
     file_attrs |-> file_attrs, name_len |-> 2 * Len(name),
     name_off |-> name_off, name |-> name]

\* what one DeviceIoControl(FSCTL_ENUM_USN_DATA) call gives: ok, the number
\* of bytes returned, the next reference number at offset 0 and the records
\* that follow it; the bytes after the last record are zero
Response(ok, returned, next_ref, records) ==
    [ok |-> ok, returned |-> returned, next_ref |-> next_ref,
     records |-> records]

\* lines 163-184: the records of one batch, from offset on
RECURSIVE ParseRecords(_, _, _, _)
ParseRecords(records, offset, returned, table) ==
    IF ~(offset + RecordHeader <= returned) \/ records = <<>> THEN table
    ELSE LET rec == Head(records)
         IN  IF rec.rec_len = 0 \/ offset + rec.rec_len > returned THEN table
             ELSE LET name_start == offset + rec.name_off
                      name_end   == name_start + rec.name_len
                      is_dir     == HasAttr(rec.file_attrs, FILE_ATTRIBUTE_DIRECTORY)
                      is_reparse == HasAttr(rec.file_attrs, FILE_ATTRIBUTE_REPARSE_POINT)
                      kept       == /\ name_end <= returned
                                    /\ rec.name_len > 0
                                    /\ ~is_reparse
                                    /\ is_dir
                  IN  ParseRecords(Tail(records), offset + rec.rec_len, returned,
                         IF kept
                         THEN SetRef(table, [ref |-> Masked(rec.file_ref),
                                             parent_ref |-> Masked(rec.parent_ref),
                                             name |-> rec.name])
                         ELSE table)

\* Stage A reports progress on every 8th batch
BatchesPerEvent == 8

\* the locals of _enumerate_mft_entries before its loop; requests is the
\* history of the StartFileReferenceNumber of every call made
EnumStart ==
    [cursor |-> 0, table |-> <<>>, batch_count |-> 0, requests |-> <<>>,
     events |-> <<>>, stopped |-> FALSE]

\* variant: the cursor is left where it was
EnumBatch_CursorKept(st, resp) ==
    LET asked == [st EXCEPT !.requests = Append(@, st.cursor)]
    IN  IF ~resp.ok THEN [asked EXCEPT !.stopped = TRUE]
        ELSE IF resp.returned <= CursorBytes THEN [asked EXCEPT !.stopped = TRUE]
        ELSE [asked EXCEPT
                !.table = ParseRecords(resp.records, CursorBytes, resp.returned, @),
                !.batch_count = @ + 1]

\* lines 146-193: one turn of "while True", the volume answering resp
EnumBatch(st, resp) ==
    LET asked == [st EXCEPT !.requests = Append(@, st.cursor)]
    IN  IF ~resp.ok THEN [asked EXCEPT !.stopped = TRUE]
        ELSE IF resp.returned <= CursorBytes THEN [asked EXCEPT !.stopped = TRUE]
        ELSE LET table == ParseRecords(resp.records, CursorBytes, resp.returned,
                                       st.table)
             IN  [asked EXCEPT
                    !.table = table,
                    !.cursor = resp.next_ref,
                    !.batch_count = @ + 1,
                    !.events = IF (st.batch_count + 1) % BatchesPerEvent = 0
                               THEN Append(@, ProgressEvent(0, 0, TRUE, Rat(1, 100)))
                               ELSE @]

\* the call fails when the volume has no more records (ERROR_HANDLE_EOF)
EndOfData == Response(FALSE, 0, 0, <<>>)

\* the answer of the volume to the i-th call
Answer(volume, i) == IF i <= Len(volume) THEN volume[i] ELSE EndOfData

RECURSIVE EnumLoop(_, _)
EnumLoop(st, volume) ==
    IF st.stopped THEN st
    ELSE EnumLoop(EnumBatch(st, Answer(volume, Len(st.requests) + 1)), volume)

\* _enumerate_mft_entries(handle, progress_callback)
enumerate_mft_entries(volume) == EnumLoop(EnumStart, volume)

\* the length of a record with this name, a multiple of 8
RecLenOf(name) == ((RecordHeader + 2 * Len(name) + 7) \div 8) * 8

\* the batches of a volume that holds the tree, one record a batch in the
\* order of the tree
VolumeOf(tree) ==
    [i \in 1..Len(tree.entries) |->
        LET e == tree.entries[i]
        IN  Response(TRUE, CursorBytes + RecLenOf(e.name), i,
              << UsnRecord(RecLenOf(e.name), <<1, e.ref>>,
                           <<1, ParentRef(tree, e)>>,
                           CASE e.kind = "dir" -> FILE_ATTRIBUTE_DIRECTORY
                             [] e.kind = "junction" ->
                                  FILE_ATTRIBUTE_DIRECTORY + FILE_ATTRIBUTE_REPARSE_POINT
                             [] OTHER -> 0,
                           RecordHeader, e.name) >>)]

\* variant: children named like volume metadata are queued as well
BfsStep_KeepsMeta(table, queue, compact) ==
    LET q    == Head(queue)
        kids == SelectSeq(table, LAMBDA r : r.parent_ref = q.ref)
    IN  [queue   |-> Tail(queue)
                       \o [i \in 1..Len(kids) |->
                             [ref |-> kids[i].ref, parent_ref |-> q.ref,
                              name |-> kids[i].name]],
         compact |-> IF q.ref # NTFS_ROOT_REF THEN SetRef(compact, q) ELSE compact]

\* Stage B, lines 212-218: one turn of "while queue"
BfsStep(table, queue, compact) ==
    LET q    == Head(queue)
        kids == SelectSeq(table, LAMBDA r :
                    r.parent_ref = q.ref /\ ~StartsWith(r.name, "$"))
    IN  [queue   |-> Tail(queue)
                       \o [i \in 1..Len(kids) |->
                             [ref |-> kids[i].ref, parent_ref |-> q.ref,
                              name |-> kids[i].name]],
         compact |-> IF q.ref # NTFS_ROOT_REF THEN SetRef(compact, q) ELSE compact]

\* Stage B: the breadth-first traversal from the root reference
RECURSIVE BfsCompact(_, _, _)
BfsCompact(table, queue, compact) ==
    IF queue = <<>> THEN compact
    ELSE LET n == BfsStep(table, queue, compact)
         IN  BfsCompact(table, n.queue, n.compact)

\* line 209: the queue holds the root
RootQueue ==
    <<[ref |-> NTFS_ROOT_REF, parent_ref |-> NTFS_ROOT_REF, name |-> <<>>]>>

build_dir_paths_compact(table) == BfsCompact(table, RootQueue, <<>>)

RECURSIVE PartsUp(_, _)
PartsUp(r, compact) ==
    IF HasRef(compact, r)
    THEN PartsUp(GetRef(compact, r).parent_ref, compact) \o <<GetRef(compact, r).name>>
    ELSE <<>>

get_dir_full_path(ref, compact, root_path) ==
    IF ref = NTFS_ROOT_REF THEN root_path
    ELSE root_path \o <<SEP>> \o JoinParts(PartsUp(ref, compact))

\* mft_scanner.py lines 334-358: a regular file of the listing
MftCountFile(acc, e, path) ==
    LET size == e.size
        ext  == ExtOf(e.name)
        rel  == LStripSeps(SubSeq(path, Len(RStripSeps(options.path)) + 1, Len(path)))
    IN  [acc EXCEPT
            !.file_count = @ + 1,
            !.scanned_size = @ + size,
            !.file_type_stats = BumpType(@, ext, size),
            !.hierarchy = IF rel # <<>> THEN mft_add_size_to_hierarchy(@, rel, size) ELSE @,
            !.addLog = IF rel # <<>>
                       THEN Append(@, [rel |-> rel, size |-> size, impl |-> "mft"])
                       ELSE @,
            !.largest_file = IF @ = <<>> \/ size > @[1].size
                             THEN <<FileInfo(path, e.name, size, ext)>> ELSE @,
            !.counted = @ \cup {EntryAt(e)},
            !.order = Append(@, EntryAt(e))]

\* mft_scanner.py lines 325-358: the body of "for entry in it"
MftEntry(acc, e, dir_path) ==
    IF Raises("stat", EntryAt(e)) THEN CountError(acc, "stat", EntryAt(e))
    ELSE IF e.kind # "file" THEN acc
    ELSE MftCountFile(acc, e, Join(dir_path, e.name))

RECURSIVE MftLoop(_, _, _)
MftLoop(acc, listing, dir_path) ==
    IF listing = <<>> THEN acc
    ELSE MftLoop(MftEntry(acc, Head(listing), dir_path), Tail(listing), dir_path)

\* mft_scanner.py lines 318-362: one turn of "for dir_ref in all_dir_refs"
MftTurn(acc, dir_ref) ==
    LET dir_path == get_dir_full_path(dir_ref, dir_compact, RStripSeps(options.path))
    IN  IF mft_match_exclude(dir_path, options.exclude_patterns) THEN acc
        ELSE IF ScandirRaises(dir_path)
        THEN CountError(acc, "scandir", ComponentsOf(dir_path))
        ELSE MftLoop(acc, Listing(ComponentsOf(dir_path)), dir_path)

(***************************************************************************)
(* The squarified layout: treemap.py. A Python float is the exact          *)
(* fraction, kept in lowest terms; float("inf") is <<>>.                   *)
(***************************************************************************)
Abs(n) == IF n < 0 THEN -n ELSE n

RECURSIVE Gcd(_, _)
Gcd(a, b) == IF b = 0 THEN a ELSE Gcd(b, a % b)

\* the fraction n / d (d # 0) in lowest terms with a positive denominator
Norm(n, d) ==
    LET g == Gcd(Abs(n), Abs(d))
    IN  IF d < 0 THEN <<(-n) \div g, (-d) \div g>> ELSE <<n \div g, d \div g>>

RatAdd(a, b) == Norm(a[1] * b[2] + b[1] * a[2], a[2] * b[2])

RatSub(a, b) == Norm(a[1] * b[2] - b[1] * a[2], a[2] * b[2])

RatMul(a, b) == Norm(a[1] * b[1], a[2] * b[2])

RatDiv(a, b) == Norm(a[1] * b[2], a[2] * b[1])

Zero == Rat(0, 1)

Inf == <<>>

\* a <= b on floats that may be infinite
InfLe(a, b) == IF b = Inf THEN TRUE ELSE IF a = Inf THEN FALSE ELSE RatLe(a, b)

RECURSIVE SumRat(_)
SumRat(row) == IF row = <<>> THEN Zero ELSE RatAdd(Head(row), SumRat(Tail(row)))

MaxRat(row) ==
    row[CHOOSE i \in 1..Len(row) : \A j \in 1..Len(row) : RatLe(row[j], row[i])]

MinRat(row) ==
    row[CHOOSE i \in 1..Len(row) : \A j \in 1..Len(row) : RatLe(row[i], row[j])]

\* TreemapNode(label="", size=val, x, y, width, height)
TreemapNode(val, x, y, width, height) ==
    [label |-> <<>>, size |-> val, x |-> x, y |-> y,
     width |-> width, height |-> height, data |-> <<>>]

\* treemap.py lines 46-57 and 59-73: the nodes of a row, one after the other
\* along the row, a node of non-positive length being skipped
RECURSIVE RowNodes(_, _, _, _, _)
RowNodes(row, x, y, thickness, is_horizontal) ==
    IF row = <<>> THEN <<>>
    ELSE LET val    == Head(row)
             length == RatDiv(val, thickness)
         IN  IF RatLe(length, Zero)
             THEN RowNodes(Tail(row), x, y, thickness, is_horizontal)
             ELSE IF is_horizontal
             THEN <<TreemapNode(val, x, y, length, thickness)>>
                  \o RowNodes(Tail(row), RatAdd(x, length), y, thickness, TRUE)
             ELSE <<TreemapNode(val, x, y, thickness, length)>>
                  \o RowNodes(Tail(row), x, RatAdd(y, length), thickness, FALSE)

\* variant: the rectangle left over is not moved past the row
layout_row_RectNotAdvanced(row, row_rect, is_horizontal) ==
    LET row_sum == SumRat(row)
    IN  IF RatLe(row_sum, Zero) \/ RatLe(row_rect.w, Zero) \/ RatLe(row_rect.h, Zero)
        THEN [nodes |-> <<>>, rect |-> <<>>]
        ELSE IF is_horizontal
        THEN LET row_height == RatDiv(row_sum, row_rect.w)
             IN  [nodes |-> RowNodes(row, row_rect.x, row_rect.y, row_height, TRUE),
                  rect  |-> <<[row_rect EXCEPT !.h = RatSub(@, row_height)]>>]
        ELSE LET row_width == RatDiv(row_sum, row_rect.h)
             IN  [nodes |-> RowNodes(row, row_rect.x, row_rect.y, row_width, FALSE),
                  rect  |-> <<[row_rect EXCEPT !.w = RatSub(@, row_width)]>>]

\* variant: a row is laid out whatever its sum and its rectangle are
layout_row_Unguarded(row, row_rect, is_horizontal) ==
    LET row_sum == SumRat(row)
    IN  IF row_sum = Zero \/ row_rect.w = Zero \/ row_rect.h = Zero
        THEN [nodes |-> <<>>, rect |-> <<>>]
        ELSE IF is_horizontal
        THEN LET row_height == RatDiv(row_sum, row_rect.w)
             IN  [nodes |-> [i \in 1..Len(row) |->
                               TreemapNode(row[i], row_rect.x, row_rect.y,
                                           RatDiv(row[i], row_height), row_height)],
                  rect  |-> <<[row_rect EXCEPT !.y = RatAdd(@, row_height),
                                               !.h = RatSub(@, row_height)]>>]
        ELSE LET row_width == RatDiv(row_sum, row_rect.h)
             IN  [nodes |-> [i \in 1..Len(row) |->
                               TreemapNode(row[i], row_rect.x, row_rect.y,
                                           row_width, RatDiv(row[i], row_width))],
                  rect  |-> <<[row_rect EXCEPT !.x = RatAdd(@, row_width),
                                               !.w = RatSub(@, row_width)]>>]

\* treemap.py lines 35-73: the nodes the row adds and the rectangle left
\* over, <<>> for None
layout_row(row, row_rect, is_horizontal) ==
    LET row_sum == SumRat(row)
    IN  IF RatLe(row_sum, Zero) \/ RatLe(row_rect.w, Zero) \/ RatLe(row_rect.h, Zero)
        THEN [nodes |-> <<>>, rect |-> <<>>]
        ELSE IF is_horizontal
        THEN LET row_height == RatDiv(row_sum, row_rect.w)
             IN  IF RatLe(row_height, Zero) THEN [nodes |-> <<>>, rect |-> <<>>]
                 ELSE
                 [nodes |-> RowNodes(row, row_rect.x, row_rect.y, row_height, TRUE),
                  rect  |-> <<[row_rect EXCEPT !.y = RatAdd(@, row_height),
                                               !.h = RatSub(@, row_height)]>>]
        ELSE LET row_width == RatDiv(row_sum, row_rect.h)
             IN  IF RatLe(row_width, Zero) THEN [nodes |-> <<>>, rect |-> <<>>]
                 ELSE
                 [nodes |-> RowNodes(row, row_rect.x, row_rect.y, row_width, FALSE),
                  rect  |-> <<[row_rect EXCEPT !.x = RatAdd(@, row_width),
                                               !.w = RatSub(@, row_width)]>>]

\* treemap.py lines 75-86
worst_aspect_ratio(row, side_length) ==
    IF row = <<>> \/ RatLe(side_length, Zero) THEN Inf
    ELSE LET sm == SumRat(row)
         IN  IF RatLe(sm, Zero) THEN Inf
             ELSE LET max_v == MaxRat(row)
                      min_v == MinRat(row)
                      s2    == RatMul(side_length, side_length)
                  IN  IF RatLe(max_v, Zero) \/ RatLe(min_v, Zero) THEN Inf
                      ELSE RatMax(RatDiv(RatMul(s2, max_v), RatMul(sm, sm)),
                                  RatDiv(RatMul(sm, sm), RatMul(s2, min_v)))

\* treemap.py lines 88-110: the loop "while remaining" and the last row
RECURSIVE SquarifyLoop(_, _, _, _, _)
SquarifyLoop(remaining, row, current_rect, is_horizontal, nodes) ==
    IF remaining = <<>>
    THEN IF row # <<>>
         THEN nodes \o layout_row(row, current_rect, is_horizontal).nodes
         ELSE nodes
    ELSE LET grown == Append(row, Head(remaining))
             side  == IF is_horizontal THEN current_rect.w ELSE current_rect.h
         IN  IF \/ Len(grown) = 1
                \/ InfLe(worst_aspect_ratio(grown, side),
                         worst_aspect_ratio(row, side))
             THEN SquarifyLoop(Tail(remaining), grown, current_rect,
                               is_horizontal, nodes)
             ELSE LET laid == layout_row(row, current_rect, is_horizontal)
                  IN  IF laid.rect = <<>>
                      THEN nodes \o laid.nodes
                      ELSE SquarifyLoop(remaining, <<>>, laid.rect[1],
                                        ~is_horizontal, nodes \o laid.nodes)

RECURSIVE SumInt(_)
SumInt(sizes) == IF sizes = <<>> THEN 0 ELSE Head(sizes) + SumInt(Tail(sizes))

\* variant: the sizes are laid out without being scaled to the rectangle
squarify_Unscaled(sizes, rect) ==
    IF sizes = <<>> \/ SumInt(sizes) <= 0 THEN <<>>
    ELSE SquarifyLoop([i \in 1..Len(sizes) |-> Rat(sizes[i], 1)],
                      <<>>, rect, TRUE, <<>>)

\* treemap.py lines 18-33 and 88-112: _squarify(sizes, rect)
squarify(sizes, rect) ==
    IF sizes = <<>> \/ SumInt(sizes) <= 0 THEN <<>>
    ELSE LET total == SumInt(sizes)
             normalized ==
                 [i \in 1..Len(sizes) |->
                     RatMul(RatMul(Norm(sizes[i], total), rect.w), rect.h)]
         IN  SquarifyLoop(normalized, <<>>, rect, TRUE, <<>>)

\* treemap.py lines 115-139: zip() stops at the shorter of nodes and items
build_treemap(items, width, height) ==
    LET filtered == SelectSeq(items, LAMBDA it : it.size > 0)
    IN  IF filtered = <<>> THEN <<>>
        ELSE LET nodes == squarify([i \in 1..Len(filtered) |-> filtered[i].size],
                                   [x |-> Zero, y |-> Zero,
                                    w |-> Rat(width, 1), h |-> Rat(height, 1)])
                 n     == IF Len(nodes) < Len(filtered)
                          THEN Len(nodes) ELSE Len(filtered)
             IN  [i \in 1..n |->
                     [nodes[i] EXCEPT !.label = filtered[i].label,
                                      !.size = Rat(filtered[i].size, 1),
                                      !.data = filtered[i].data]]

(***************************************************************************)
(* Specification Spec: one scan started from the App                       *)
(***************************************************************************)
RECURSIVE SetsUpTo(_, _)
SetsUpTo(S, n) ==
    IF n = 0 THEN {{}}
    ELSE LET prev == SetsUpTo(S, n - 1)
         IN  prev \cup { F \cup {x} : F \in prev, x \in S }

NoHistory ==
    [mftInvoked |-> FALSE, mftRaised |-> FALSE, raisedAt |-> "",
     walkRuns |-> 0, raiseHier |-> EmptyDict, walkStartHier |-> EmptyDict,
     hit |-> {}, counted |-> {}, listed |-> {}, order |-> <<>>]

\* no build_treemap call has been made
NoTreemap == [items |-> <<>>, width |-> 0, height |-> 0, nodes |-> <<>>,
              called |-> FALSE]

\* the progress updater of a scan is not looked at
NoEstimator == [running |-> FALSE]

\* the App when its first worker thread has been started: nothing posted,
\* the progress updater running; clicks, rejected and handled are history
\* (the clicks made, those answered by a message box, the notifications run)
FreshApp ==
    [posted |-> <<>>, progress_updater_running |-> TRUE, scan_result |-> <<>>,
     workers |-> 1, clicks |-> 0, rejected |-> 0, handled |-> 0]

\* the locals of a backend that has not started, and no result yet
IdleLocals ==
    /\ pc = "start"
    /\ backend = "none"
    /\ stack = <<>>
    /\ error_count = 0
    /\ file_count = 0
    /\ folder_count = 0
    /\ scanned_size = 0
    /\ largest_file = <<>>
    /\ file_type_stats = EmptyDict
    /\ entries = <<>>
    /\ dir_compact = <<>>
    /\ all_dir_refs = <<>>
    /\ processed_dirs = 0
    /\ result = <<>>
    /\ ui = "scanning"
    /\ hist = NoHistory
    /\ events = <<>>
    /\ app = FreshApp

\* Stages A and B are not looked at step by step
NoMft == [stage |-> "idle"]

\* no add is in progress
NoAdd == [active |-> FALSE]

\* nothing is drawn, the progress updater is not looked at, no volume handle
\* has been opened, no add is in progress
IdleViews ==
    /\ treemap = NoTreemap
    /\ estimator = NoEstimator
    /\ mft = NoMft
    /\ handles = <<>>
    /\ adding = NoAdd

\* main.py on_scan_clicked: the options of both scan modes, the empty live
\* hierarchy, and the worker about to call scan_path
Init ==
    /\ hierarchy = EmptyDict
    /\ addLog = <<>>
    /\ fs \in Trees
    /\ faults \in SetsUpTo(PossibleFaults(fs), MaxFaults)
    /\ env \in Envs
    /\ options \in [path : {RootMount}, exclude_patterns : PatternLists,
                    max_depth : Depths, follow_symlinks : {FALSE}]
    /\ IdleLocals
    /\ IdleViews

\* what a turn of a backend leaves in its locals and in the shared hierarchy
Commit(acc) ==
    /\ error_count' = acc.error_count
    /\ file_count' = acc.file_count
    /\ folder_count' = acc.folder_count
    /\ scanned_size' = acc.scanned_size
    /\ largest_file' = acc.largest_file
    /\ file_type_stats' = acc.file_type_stats
    /\ hierarchy' = acc.hierarchy
    /\ addLog' = acc.addLog

\* variant: the walker starts on a cleared hierarchy
EnterScandir_ClearsHierarchy ==
    /\ backend' = "scandir"
    /\ pc' = "walk"
    /\ stack' = <<options.path>>
    /\ Commit(FreshLocals(EmptyDict, addLog))
    /\ entries' = <<>>
    /\ dir_compact' = <<>>
    /\ all_dir_refs' = <<>>
    /\ processed_dirs' = 0

\* _scan_via_scandir lines 149-171: fresh locals, the root on the stack
EnterScandir ==
    /\ backend' = "scandir"
    /\ pc' = "walk"
    /\ stack' = <<options.path>>
    /\ Commit(FreshLocals(hierarchy, addLog))
    /\ entries' = <<>>
    /\ dir_compact' = <<>>
    /\ all_dir_refs' = <<>>
    /\ processed_dirs' = 0

\* scan_path line 359, taking the branch the availability check selects
ScanPathStart ==
    /\ pc = "start"
    /\ IF can_use_mft(options.path)
       THEN /\ pc' = "mft_open"
            /\ backend' = "mft"
            /\ hist' = [hist EXCEPT !.mftInvoked = TRUE]
            /\ UNCHANGED <<hierarchy, addLog, stack, error_count, file_count,
                           folder_count, scanned_size, largest_file,
                           file_type_stats, entries, dir_compact, all_dir_refs,
                           processed_dirs>>
       ELSE /\ EnterScandir
            /\ hist' = [hist EXCEPT !.walkRuns = @ + 1,
                                    !.walkStartHier = hierarchy]
    /\ UNCHANGED <<fs, faults, env, options, result, ui, events,
                   app, treemap, estimator,
                   mft, adding>>
    /\ handles' = ProbeHandles(handles, options.path)

\* scan_mft lines 277-292: the volume opens
\* (the handle is closed by the finally clause, lines 368-369)
MftOpen ==
    /\ pc = "mft_open"
    /\ fs.exists
    /\ pc' = "mft_A"
    /\ events' = Append(events, ProgressEvent(0, 0, TRUE, Rat(0, 1)))
    /\ UNCHANGED <<hierarchy, addLog, fs, faults, env, options, backend, stack,
                   error_count, file_count, folder_count, scanned_size,
                   largest_file, file_type_stats, entries, dir_compact,
                   all_dir_refs, processed_dirs, result, ui, hist,
                   app, treemap, estimator,
                   mft, adding>>
    /\ handles' = open_volume(handles, "scan_mft")

\* scan_mft line 294: Stage A
MftStageA ==
    /\ pc = "mft_A"
    /\ LET st == enumerate_mft_entries(VolumeOf(fs))
       IN  /\ entries' = st.table
           /\ events' = events \o st.events
    /\ pc' = "mft_B"
    /\ UNCHANGED <<hierarchy, addLog, fs, faults, env, options, backend, stack,
                   error_count, file_count, folder_count, scanned_size,
                   largest_file, file_type_stats, dir_compact, all_dir_refs,
                   processed_dirs, result, ui, hist,
                   app, treemap, estimator,
                   mft, handles, adding>>

\* scan_mft lines 296-316: Stage B
MftStageB ==
    /\ pc = "mft_B"
    /\ LET compact == build_dir_paths_compact(entries)
       IN  /\ dir_compact' = compact
           /\ folder_count' = Len(compact)
           /\ all_dir_refs' = <<NTFS_ROOT_REF>>
                                \o [i \in 1..Len(compact) |-> compact[i].ref]
           /\ events' = events
                \o << ProgressEvent(0, 0, TRUE, Rat(2, 100)),
                      ProgressEvent(0, Len(compact), TRUE, Rat(3, 100)) >>
    /\ entries' = <<>>
    /\ processed_dirs' = 0
    /\ pc' = "mft_C"
    /\ UNCHANGED <<hierarchy, addLog, fs, faults, env, options, backend, stack,
                   error_count, file_count, scanned_size, largest_file,
                   file_type_stats, result, ui, hist,
                   app, treemap, estimator,
                   mft, handles, adding>>

\* scan_mft lines 317-366: Stage C lists one directory
MftStageC ==
    /\ pc = "mft_C"
    /\ all_dir_refs # <<>>
    /\ LET dir_ref  == Head(all_dir_refs)
           dir_path == get_dir_full_path(dir_ref, dir_compact,
                                         RStripSeps(options.path))
           acc      == MftTurn(CurrentLocals, dir_ref)
           total_dirs == IF folder_count + 1 >= 1 THEN folder_count + 1 ELSE 1
       IN  /\ Commit(acc)
           /\ hist' = [hist EXCEPT
                 !.hit = acc.hit,
                 !.counted = acc.counted,
                 !.order = acc.order,
                 !.listed = IF mft_match_exclude(dir_path, options.exclude_patterns)
                            THEN @ ELSE @ \cup {ComponentsOf(dir_path)}]
           /\ events' =
                 IF /\ ~mft_match_exclude(dir_path, options.exclude_patterns)
                    /\ (processed_dirs + 1) % ProgressEvery = 0
                 THEN Append(events,
                        ProgressEvent(acc.file_count, acc.folder_count, FALSE,
                                      MftRatio(processed_dirs + 1, total_dirs)))
                 ELSE events
    /\ all_dir_refs' = Tail(all_dir_refs)
    /\ processed_dirs' = processed_dirs + 1
    /\ UNCHANGED <<fs, faults, env, options, pc, backend, stack, entries,
                   dir_compact, result, ui,
                   app, treemap, estimator,
                   mft, handles, adding>>

\* scan_mft line 371 and _scan_via_mft lines 315-343
MftReturn ==
    /\ pc = "mft_C"
    /\ all_dir_refs = <<>>
    /\ result' = <<ScanResult("mft")>>
    /\ events' = Append(events,
                    ProgressEvent(file_count, folder_count, FALSE, Rat(1, 1)))
    /\ pc' = "returned"
    /\ UNCHANGED <<hierarchy, addLog, fs, faults, env, options, backend, stack,
                   error_count, file_count, folder_count, scanned_size,
                   largest_file, file_type_stats, entries, dir_compact,
                   all_dir_refs, processed_dirs, ui, hist,
                   app, treemap, estimator,
                   mft, adding>>
    /\ handles' = close_handle(handles, Len(handles))

\* the accelerated backend raises (the volume does not open, line 280, or an
\* error leaves Stage A, B or C through the finally clause); scan_path
\* lines 363-366 catch it and call the generic walker
MftRaise ==
    /\ pc \in {"mft_open", "mft_A", "mft_B", "mft_C"}
    /\ EnterScandir
    /\ hist' = [hist EXCEPT !.mftRaised = TRUE,
                            !.raisedAt = pc,
                            !.raiseHier = hierarchy,
                            !.walkRuns = @ + 1,
                            !.walkStartHier = hierarchy,
                            !.hit = {}, !.counted = {}, !.listed = {},
                            !.order = <<>>]
    /\ UNCHANGED <<fs, faults, env, options, result, ui, events,
                   app, treemap, estimator,
                   mft, adding>>
    /\ handles' = IF pc = "mft_open" THEN handles
                   ELSE close_handle(handles, Len(handles))

\* _scan_via_scandir lines 173-252: one directory taken off the stack
WalkStep ==
    /\ pc = "walk"
    /\ stack # <<>>
    /\ LET current_dir == stack[Len(stack)]
           acc         == ScandirTurn(CurrentLocals, current_dir)
       IN  /\ Commit(acc)
           /\ stack' = SubSeq(stack, 1, Len(stack) - 1) \o acc.subdirs
           /\ hist' = [hist EXCEPT
                 !.hit = acc.hit,
                 !.counted = acc.counted,
                 !.order = acc.order,
                 !.listed = IF ScandirCalled(current_dir)
                            THEN @ \cup {ComponentsOf(current_dir)} ELSE @]
           /\ events' =
                 IF ScandirCalled(current_dir) /\ ~ScandirRaises(current_dir)
                 THEN Append(events,
                        ProgressEvent(acc.file_count, acc.folder_count, FALSE,
                                      WalkerRatio(acc.scanned_size)))
                 ELSE events
    /\ UNCHANGED <<fs, faults, env, options, pc, backend, entries, dir_compact,
                   all_dir_refs, processed_dirs, result, ui,
                   app, treemap, estimator,
                   mft, handles, adding>>

\* _scan_via_scandir lines 254-282
WalkReturn ==
    /\ pc = "walk"
    /\ stack = <<>>
    /\ result' = <<ScanResult("scandir")>>
    /\ events' = Append(events,
                    ProgressEvent(file_count, folder_count, FALSE, Rat(1, 1)))
    /\ pc' = "returned"
    /\ UNCHANGED <<hierarchy, addLog, fs, faults, env, options, backend, stack,
                   error_count, file_count, folder_count, scanned_size,
                   largest_file, file_type_stats, entries, dir_compact,
                   all_dir_refs, processed_dirs, ui, hist,
                   app, treemap, estimator,
                   mft, handles, adding>>

\* main.py line 527: the worker posts on_scan_finished(result) to the UI
\* thread and ends
WorkerExit ==
    /\ pc = "returned"
    /\ app' = [app EXCEPT !.posted = Append(@, result[1]),
                          !.workers = @ - 1]
    /\ pc' = "done"
    /\ UNCHANGED <<hierarchy, addLog, fs, faults, env, options, backend, stack,
                   error_count, file_count, folder_count, scanned_size,
                   largest_file, file_type_stats, entries, dir_compact,
                   all_dir_refs, processed_dirs, result, ui, hist, events, treemap, estimator,
                   mft, handles, adding>>

\* main.py lines 533-549: the UI thread runs a posted notification
on_scan_finished ==
    /\ app.posted # <<>>
    /\ app' = [app EXCEPT !.posted = Tail(@),
                          !.progress_updater_running = FALSE,
                          !.scan_result = <<Head(app.posted)>>,
                          !.handled = @ + 1]
    /\ ui' = "finished"
    /\ UNCHANGED <<hierarchy, addLog, fs, faults, env, options, pc, backend,
                   stack, error_count, file_count, folder_count, scanned_size,
                   largest_file, file_type_stats, entries, dir_compact,
                   all_dir_refs, processed_dirs, result, hist, events, treemap, estimator,
                   mft, handles, adding>>

Next ==
    \/ ScanPathStart
    \/ MftOpen
    \/ MftStageA
    \/ MftStageB
    \/ MftStageC
    \/ MftReturn
    \/ MftRaise
    \/ WalkStep
    \/ WalkReturn
    \/ WorkerExit
    \/ on_scan_finished

Spec == Init /\ [][Next]_vars

(***************************************************************************)
(* Specification SpecMft: Stages A and B of scan_mft step by step, on any  *)
(* answers of the volume, then the path of every directory reference       *)
(***************************************************************************)
MaxBatches == 3

Projects == <<"P", "r", "o", "j", "e", "c", "t", "s">>

\* records: directory 12 "Projects" below the root (sequence number 3),
\* directory 13 "x" below 12, a file, the metadata directory 11 "$E" and a
\* directory below it, a reparse directory, a record of the root itself,
\* two directories that are each other's parent, a record of length 0, a
\* record longer than the batch, a record whose name lies past the batch
RProjects == UsnRecord(80, <<3, 12>>, <<5, NTFS_ROOT_REF>>, 16, 60, Projects)
RSub == UsnRecord(64, <<1, 13>>, <<3, 12>>, 16, 60, <<"x">>)
RFile == UsnRecord(64, <<1, 14>>, <<5, NTFS_ROOT_REF>>, 32, 60, <<"f">>)
RMeta == UsnRecord(64, <<1, 11>>, <<5, NTFS_ROOT_REF>>, 22, 60, <<"$", "E">>)
RUnderMeta == UsnRecord(64, <<1, 15>>, <<1, 11>>, 16, 60, <<"q">>)
RJunction == UsnRecord(64, <<1, 16>>, <<5, NTFS_ROOT_REF>>, 1040, 60, <<"j">>)
RRoot == UsnRecord(64, <<5, NTFS_ROOT_REF>>, <<5, NTFS_ROOT_REF>>, 22, 60, <<".">>)
RLoopA == UsnRecord(64, <<1, 20>>, <<1, 21>>, 16, 60, <<"a">>)
RLoopB == UsnRecord(64, <<1, 21>>, <<1, 20>>, 16, 60, <<"b">>)
RZero == UsnRecord(0, <<1, 17>>, <<5, NTFS_ROOT_REF>>, 16, 60, <<"z">>)
ROverrun == UsnRecord(200, <<1, 18>>, <<5, NTFS_ROOT_REF>>, 16, 60, <<"o">>)
RBadName == UsnRecord(64, <<1, 19>>, <<5, NTFS_ROOT_REF>>, 16, 70, <<"n">>)

Responses ==
    { Response(TRUE, 88, 100, <<RProjects>>),
      Response(TRUE, 136, 200, <<RSub, RFile>>),
      Response(TRUE, 264, 300, <<RMeta, RUnderMeta, RJunction, RBadName>>),
      Response(TRUE, 72, 400, <<RRoot>>),
      Response(TRUE, 136, 500, <<RLoopA, RLoopB>>),
      Response(TRUE, 88, 600, <<RZero, RProjects>>),
      Response(TRUE, 72, 700, <<ROverrun>>),
      Response(TRUE, 8, 800, <<>>),
      Response(FALSE, 0, 0, <<>>) }

RECURSIVE SeqsOver(_, _)
SeqsOver(S, n) ==
    IF n = 0 THEN {<<>>}
    ELSE LET prev == SeqsOver(S, n - 1)
         IN  prev \cup { Append(q, x) : q \in {p \in prev : Len(p) = n - 1}, x \in S }

\* scan_mft has opened the volume and made its first progress call
InitMft ==
    /\ hierarchy = EmptyDict
    /\ addLog = <<>>
    /\ fs = TreeMissing
    /\ faults = {}
    /\ env = [platform |-> "Windows", probe |-> "ok", total_size |-> 0]
    /\ options = [path |-> RootMount, exclude_patterns |-> <<>>,
                  max_depth |-> <<>>, follow_symlinks |-> FALSE]
    /\ pc = "mft_A"
    /\ backend = "mft"
    /\ stack = <<>>
    /\ error_count = 0
    /\ file_count = 0
    /\ folder_count = 0
    /\ scanned_size = 0
    /\ largest_file = <<>>
    /\ file_type_stats = EmptyDict
    /\ entries = <<>>
    /\ dir_compact = <<>>
    /\ all_dir_refs = <<>>
    /\ processed_dirs = 0
    /\ result = <<>>
    /\ ui = "scanning"
    /\ hist = [NoHistory EXCEPT !.mftInvoked = TRUE]
    /\ events = <<ProgressEvent(0, 0, TRUE, Rat(0, 1))>>
    /\ app = FreshApp
    /\ treemap = NoTreemap
    /\ estimator = NoEstimator
    /\ handles = open_volume(ProbeHandles(<<>>, options.path), "scan_mft")
    /\ adding = NoAdd
    /\ mft \in { [stage |-> "A", volume |-> v, st |-> EnumStart, table |-> <<>>,
                   queue |-> <<>>, compact |-> <<>>, visited |-> {},
                   revisited |-> {}, resolved |-> <<>>] :
                 v \in SeqsOver(Responses, MaxBatches) }

\* _enumerate_mft_entries: one DeviceIoControl call and its batch
MftRequest ==
    /\ mft.stage = "A"
    /\ ~mft.st.stopped
    /\ mft' = [mft EXCEPT
                 !.st = EnumBatch(@, Answer(mft.volume, Len(mft.st.requests) + 1))]
    /\ UNCHANGED <<hierarchy, addLog, fs, faults, env, options, pc, backend,
                   stack, error_count, file_count, folder_count, scanned_size,
                   largest_file, file_type_stats, entries, dir_compact,
                   all_dir_refs, processed_dirs, result, ui, hist, events, app,
                   treemap, estimator, handles, adding>>

\* _enumerate_mft_entries returns (line 195); scan_mft lines 296-302 and
\* _build_dir_paths_compact lines 203-209
EnumReturn ==
    /\ mft.stage = "A"
    /\ mft.st.stopped
    /\ entries' = mft.st.table
    /\ events' = (events \o mft.st.events)
                    \o <<ProgressEvent(0, 0, TRUE, Rat(2, 100))>>
    /\ mft' = [mft EXCEPT !.stage = "B", !.table = mft.st.table,
                          !.queue = RootQueue, !.compact = <<>>]
    /\ pc' = "mft_B"
    /\ UNCHANGED <<hierarchy, addLog, fs, faults, env, options, backend,
                   stack, error_count, file_count, folder_count, scanned_size,
                   largest_file, file_type_stats, dir_compact,
                   all_dir_refs, processed_dirs, result, ui, hist, app,
                   treemap, estimator, handles, adding>>

\* _build_dir_paths_compact lines 211-218: one entry leaves the queue
BfsVisit ==
    /\ mft.stage = "B"
    /\ mft.queue # <<>>
    /\ LET n   == BfsStep(entries, mft.queue, mft.compact)
           ref == Head(mft.queue).ref
       IN  mft' = [mft EXCEPT
                     !.queue = n.queue,
                     !.compact = n.compact,
                     !.visited = @ \cup {ref},
                     !.revisited = IF ref \in mft.visited THEN @ \cup {ref} ELSE @]
    /\ UNCHANGED <<hierarchy, addLog, fs, faults, env, options, pc, backend,
                   stack, error_count, file_count, folder_count, scanned_size,
                   largest_file, file_type_stats, entries, dir_compact,
                   all_dir_refs, processed_dirs, result, ui, hist, events, app,
                   treemap, estimator, handles, adding>>

\* _build_dir_paths_compact returns (line 220); scan_mft lines 302-316
BfsReturn ==
    /\ mft.stage = "B"
    /\ mft.queue = <<>>
    /\ dir_compact' = mft.compact
    /\ entries' = <<>>
    /\ folder_count' = Len(mft.compact)
    /\ processed_dirs' = 0
    /\ all_dir_refs' = <<NTFS_ROOT_REF>>
                         \o [i \in 1..Len(mft.compact) |-> mft.compact[i].ref]
    /\ events' = Append(events,
                    ProgressEvent(0, Len(mft.compact), TRUE, Rat(3, 100)))
    /\ mft' = [mft EXCEPT !.stage = "C"]
    /\ pc' = "mft_C"
    /\ UNCHANGED <<hierarchy, addLog, fs, faults, env, options, backend,
                   stack, error_count, file_count, scanned_size,
                   largest_file, file_type_stats, result, ui, hist, app,
                   treemap, estimator, handles, adding>>

\* scan_mft lines 317-318: the path of the next directory reference
ResolveNext ==
    /\ mft.stage = "C"
    /\ all_dir_refs # <<>>
    /\ mft' = [mft EXCEPT !.resolved =
                 Append(@, [ref  |-> Head(all_dir_refs),
                            path |-> get_dir_full_path(Head(all_dir_refs),
                                        dir_compact, RStripSeps(options.path))])]
    /\ all_dir_refs' = Tail(all_dir_refs)
    /\ UNCHANGED <<hierarchy, addLog, fs, faults, env, options, pc, backend,
                   stack, error_count, file_count, folder_count, scanned_size,
                   largest_file, file_type_stats, entries, dir_compact,
                   processed_dirs, result, ui, hist, events, app,
                   treemap, estimator, handles, adding>>

NextMft ==
    \/ MftRequest
    \/ EnumReturn
    \/ BfsVisit
    \/ BfsReturn
    \/ ResolveNext

SpecMft == InitMft /\ [][NextMft]_vars

(***************************************************************************)
(* Specification SpecApp: the user clicks "scan" at any moment             *)
(***************************************************************************)
MaxClicks == 3

\* main.py lines 477-499: the options of the fast and of the full mode
ScanModes ==
    { [path |-> RootMount, exclude_patterns |-> << <<"b">> >>,
       max_depth |-> <<>>, follow_symlinks |-> FALSE],
      [path |-> RootMount, exclude_patterns |-> <<>>,
       max_depth |-> <<>>, follow_symlinks |-> FALSE] }

\* main.py lines 501-531: the progress state is reset, a new empty live
\* hierarchy is made, a new worker thread is started
StartScan(opts) ==
    /\ options' = opts
    /\ hierarchy' = EmptyDict
    /\ addLog' = <<>>
    /\ events' = <<>>
    /\ app' = [app EXCEPT !.clicks = @ + 1,
                          !.progress_updater_running = TRUE,
                          !.workers = @ + 1]
    /\ pc' = "start"
    /\ backend' = "none"
    /\ stack' = <<>>
    /\ error_count' = 0
    /\ file_count' = 0
    /\ folder_count' = 0
    /\ scanned_size' = 0
    /\ largest_file' = <<>>
    /\ file_type_stats' = EmptyDict
    /\ entries' = <<>>
    /\ dir_compact' = <<>>
    /\ all_dir_refs' = <<>>
    /\ processed_dirs' = 0
    /\ result' = <<>>
    /\ ui' = "scanning"
    /\ hist' = NoHistory
    /\ handles' = <<>>
    /\ UNCHANGED <<fs, faults, env, treemap, estimator,
                   mft, adding>>

\* a click that only shows a message box
RejectClick ==
    /\ app' = [app EXCEPT !.clicks = @ + 1, !.rejected = @ + 1]
    /\ UNCHANGED <<hierarchy, addLog, fs, faults, env, options, pc, backend,
                   stack, error_count, file_count, folder_count, scanned_size,
                   largest_file, file_type_stats, entries, dir_compact,
                   all_dir_refs, processed_dirs, result, ui, hist, events, treemap, estimator,
                   mft, handles, adding>>

\* self._current_thread.is_alive(): the worker has not ended
is_alive == pc # "done"

\* variant: a click starts a worker whether or not one is alive
on_scan_clicked_NoAliveCheck ==
    /\ app.clicks < MaxClicks
    /\ \E selected \in BOOLEAN, opts \in ScanModes :
          IF ~selected THEN RejectClick
          ELSE StartScan(opts)

\* main.py lines 463-531
on_scan_clicked ==
    /\ app.clicks < MaxClicks
    /\ \E selected \in BOOLEAN, opts \in ScanModes :
          IF is_alive THEN RejectClick
          ELSE IF ~selected THEN RejectClick
          ELSE StartScan(opts)

InitApp ==
    /\ hierarchy = EmptyDict
    /\ addLog = <<>>
    /\ fs = TreeExample
    /\ faults = {}
    /\ env \in { e \in Envs : e.probe = "ok" /\ e.total_size > 0 }
    /\ options \in ScanModes
    /\ IdleLocals
    /\ IdleViews

NextApp == Next \/ on_scan_clicked

SpecApp == InitApp /\ [][NextApp]_vars

(***************************************************************************)
(* Specification SpecTreemap: one call of build_treemap                    *)
(***************************************************************************)
MaxItems == 3

ItemSizes == {-1, 0, 1, 2, 5}

Dims == {-1, 0, 1, 2, 7}

Labels == << <<"A">>, <<"B">>, <<"C">>, <<"D">>, <<"E">> >>

\* the items (label, size, data) with the given sizes
ItemsOf(sizes) ==
    [i \in 1..Len(sizes) |-> [label |-> Labels[i], size |-> sizes[i], data |-> <<i>>]]

RECURSIVE SeqsUpTo(_, _)
SeqsUpTo(S, n) ==
    IF n = 0 THEN {<<>>}
    ELSE LET prev == SeqsUpTo(S, n - 1)
         IN  prev \cup { Append(q, x) : q \in prev, x \in S }

\* build_treemap([("A",50,_), ("B",30,_), ("C",20,_)], width=100, height=10)
ExampleCall ==
    [items |-> ItemsOf(<<50, 30, 20>>), width |-> 100, height |-> 10,
     nodes |-> <<>>, called |-> FALSE]

InitTreemap ==
    /\ hierarchy = EmptyDict
    /\ addLog = <<>>
    /\ fs = TreeMissing
    /\ faults = {}
    /\ env = [platform |-> "Linux", probe |-> "ok", total_size |-> 0]
    /\ options = [path |-> RootMount, exclude_patterns |-> <<>>,
                  max_depth |-> <<>>, follow_symlinks |-> FALSE]
    /\ IdleLocals
    /\ estimator = NoEstimator
    /\ mft = NoMft
    /\ handles = <<>>
    /\ adding = NoAdd
    /\ treemap \in
          { [items |-> ItemsOf(sz), width |-> w, height |-> h,
             nodes |-> <<>>, called |-> FALSE] :
               sz \in SeqsUpTo(ItemSizes, MaxItems), w \in Dims, h \in Dims }
          \cup {ExampleCall}

CallBuildTreemap ==
    /\ ~treemap.called
    /\ treemap' = [treemap EXCEPT
                      !.nodes = build_treemap(treemap.items, treemap.width,
                                              treemap.height),
                      !.called = TRUE]
    /\ UNCHANGED <<hierarchy, addLog, fs, faults, env, options, pc, backend,
                   stack, error_count, file_count, folder_count, scanned_size,
                   largest_file, file_type_stats, entries, dir_compact,
                   all_dir_refs, processed_dirs, result, ui, hist, events, app,
                   estimator,
                   mft, handles, adding>>

NextTreemap == CallBuildTreemap

SpecTreemap == InitTreemap /\ [][NextTreemap]_vars

(***************************************************************************)
(* Specification SpecEta: the progress updater of one scan. Time is        *)
(* counted in ticks of 100 ms, a ratio in units of 1 / RatioScale.         *)
(***************************************************************************)
RatioScale == 100000

\* main.py line 516: self.after(200, ...)
FirstDelay == 2

\* main.py line 614: self.after(500, ...)
UpdateEvery == 5

\* main.py line 579: cutoff = now - 15
WindowTicks == 150

\* main.py line 591: dt >= 10.0
MinAgeTicks == 100

\* main.py line 587: ratio >= 0.05
MinRatioForEta == 5000

\* main.py line 591: dr > 0.01
MinGain == 1000

MaxTime == 1000

\* a stream of progress events: the ratio at time t is rate * t, plus jump_to
\* from jump_at on; phase tells whether its labels are phase messages
Linear(rate) == [rate |-> rate, jump_at |-> 0, jump_to |-> 0, phase |-> FALSE]

\* +2 %, +1 %, +0.1 % and +0.06 % per second
Rates == {200, 100, 10, 6}

Streams ==
    { Linear(r) : r \in Rates }
    \cup { [rate |-> 0, jump_at |-> 0, jump_to |-> 0, phase |-> TRUE],
           [rate |-> 0, jump_at |-> 300, jump_to |-> 60000, phase |-> FALSE] }

\* the timer fires every 500 ms, or late (12.5 s, 20 s) when the UI thread
\* is busy
Periods == {UpdateEvery, 125, 200}

StreamRatio(stream, t) ==
    stream.rate * t + (IF stream.jump_to > 0 /\ t >= stream.jump_at
                       THEN stream.jump_to ELSE 0)

Estimating == [numeric |-> FALSE, remaining |-> Zero, mins |-> 0, secs |-> 0]

\* "{mins}分{secs}秒" / "{secs}秒" for a remaining time in ticks
Numeric(remaining) ==
    LET whole == remaining[1] \div (remaining[2] * 10)
    IN  [numeric |-> TRUE, remaining |-> remaining,
         mins |-> whole \div 60, secs |-> whole % 60]

\* variant: the estimate does not wait for the ratio to reach 0.05
EtaOf_NoMinRatio(history, ratio, now) ==
    IF Len(history) >= 2
    THEN LET old == history[1]
             dt  == now - old.t
             dr  == ratio - old.r
         IN  IF dt >= MinAgeTicks /\ dr > MinGain
             THEN Numeric(RatMax(Zero, Norm((RatioScale - ratio) * dt, dr)))
             ELSE Estimating
    ELSE Estimating

\* variant: the speed is taken over the whole window, whatever the age of
\* the oldest sample is
EtaOf_FixedWindow(history, ratio, now) ==
    IF Len(history) >= 2 /\ ratio >= MinRatioForEta
    THEN LET old == history[1]
             dt  == now - old.t
             dr  == ratio - old.r
         IN  IF dt >= MinAgeTicks /\ dr > MinGain
             THEN Numeric(RatMax(Zero, Norm((RatioScale - ratio) * WindowTicks, dr)))
             ELSE Estimating
    ELSE Estimating

\* main.py lines 583-595: history is the window already cut to 15 s
EtaOf(history, ratio, now) ==
    IF Len(history) >= 2 /\ ratio >= MinRatioForEta
    THEN LET old == history[1]
             dt  == now - old.t
             dr  == ratio - old.r
         IN  IF dt >= MinAgeTicks /\ dr > MinGain
             THEN Numeric(RatMax(Zero, Norm((RatioScale - ratio) * dt, dr)))
             ELSE Estimating
    ELSE Estimating

InitEta ==
    /\ hierarchy = EmptyDict
    /\ addLog = <<>>
    /\ fs = TreeMissing
    /\ faults = {}
    /\ env = [platform |-> "Linux", probe |-> "ok", total_size |-> 0]
    /\ options = [path |-> RootMount, exclude_patterns |-> <<>>,
                  max_depth |-> <<>>, follow_symlinks |-> FALSE]
    /\ IdleLocals
    /\ treemap = NoTreemap
    /\ mft = NoMft
    /\ handles = <<>>
    /\ adding = NoAdd
    /\ estimator \in
          { [running |-> TRUE, now |-> 0, next_due |-> FirstDelay,
             progress_ratio |-> 0, phase_message |-> FALSE, history |-> <<>>,
             eta |-> Estimating, status |-> "eta", updates |-> 0,
             stream |-> st, period |-> p] :
               st \in Streams, p \in Periods }

\* the scan goes on until the timer is due; main.py lines 558-568: its last
\* progress event sets the ratio, clamped to [0, 1], and the phase message
on_scan_progress ==
    /\ estimator.running
    /\ estimator.now < estimator.next_due
    /\ estimator.next_due <= MaxTime
    /\ estimator.progress_ratio < RatioScale
    /\ LET r == StreamRatio(estimator.stream, estimator.next_due)
       IN  estimator' =
             [estimator EXCEPT
                !.now = estimator.next_due,
                !.progress_ratio = IF r > RatioScale THEN RatioScale
                                   ELSE IF r < 0 THEN 0 ELSE r,
                !.phase_message = estimator.stream.phase]
    /\ UNCHANGED <<hierarchy, addLog, fs, faults, env, options, pc, backend,
                   stack, error_count, file_count, folder_count, scanned_size,
                   largest_file, file_type_stats, entries, dir_compact,
                   all_dir_refs, processed_dirs, result, ui, hist, events, app,
                   treemap,
                   mft, handles, adding>>

\* main.py lines 570-614
update_progress_ui ==
    /\ estimator.running
    /\ estimator.now = estimator.next_due
    /\ LET ratio   == estimator.progress_ratio
           now     == estimator.now
           history == SelectSeq(Append(estimator.history, [t |-> now, r |-> ratio]),
                                LAMBDA smp : smp.t >= now - WindowTicks)
           eta     == EtaOf(history, ratio, now)
       IN  estimator' =
             [estimator EXCEPT
                !.history = history,
                !.eta = eta,
                !.status = IF estimator.phase_message THEN "phase" ELSE "eta",
                !.updates = @ + 1,
                !.next_due = now + estimator.period]
    /\ UNCHANGED <<hierarchy, addLog, fs, faults, env, options, pc, backend,
                   stack, error_count, file_count, folder_count, scanned_size,
                   largest_file, file_type_stats, entries, dir_compact,
                   all_dir_refs, processed_dirs, result, ui, hist, events, app,
                   treemap,
                   mft, handles, adding>>

\* main.py line 534: the scan has delivered 1.0 and on_scan_finished stops
\* the updater
StopUpdater ==
    /\ estimator.running
    /\ estimator.progress_ratio >= RatioScale
    /\ estimator' = [estimator EXCEPT !.running = FALSE]
    /\ UNCHANGED <<hierarchy, addLog, fs, faults, env, options, pc, backend,
                   stack, error_count, file_count, folder_count, scanned_size,
                   largest_file, file_type_stats, entries, dir_compact,
                   all_dir_refs, processed_dirs, result, ui, hist, events, app,
                   treemap,
                   mft, handles, adding>>

NextEta == on_scan_progress \/ update_progress_ui \/ StopUpdater

SpecEta == InitEta /\ [][NextEta]_vars

(***************************************************************************)
(* Specification SpecWide: one scan of the wide root, which has enough     *)
(* directories for Stage C to report progress                             *)
(***************************************************************************)
InitWide ==
    /\ hierarchy = EmptyDict
    /\ addLog = <<>>
    /\ fs = TreeWide
    /\ faults \in { {}, {[op |-> "scandir", at |-> <<WideNames[1]>>]},
                     {[op |-> "stat", at |-> <<WideNames[2], <<"z">> >>]} }
    /\ env \in Envs
    /\ options \in [path : {RootMount}, exclude_patterns : PatternLists,
                    max_depth : Depths, follow_symlinks : {FALSE}]
    /\ IdleLocals
    /\ IdleViews

SpecWide == InitWide /\ [][Next]_vars

(***************************************************************************)
(* Specification SpecAdd: any sequence of adds on an empty hierarchy       *)
(***************************************************************************)
MaxAdds == 3

AddSizes == {1, 2}

\* well-formed relative paths: a\x  a/y  a\b\z  b\z  and x (a file lying in
\* the scan root)
AddPaths ==
    { <<"a", SEP, "x">>, <<"a", "/", "y">>, <<"a", SEP, "b", SEP, "z">>,
      <<"b", SEP, "z">>, <<"x">> }

InitAdd ==
    /\ hierarchy = EmptyDict
    /\ addLog = <<>>
    /\ fs = TreeMissing
    /\ faults = {}
    /\ env = [platform |-> "Linux", probe |-> "ok", total_size |-> 0]
    /\ options = [path |-> RootMount, exclude_patterns |-> <<>>,
                  max_depth |-> <<>>, follow_symlinks |-> FALSE]
    /\ IdleLocals
    /\ IdleViews

AddScandir ==
    \E rel \in AddPaths, size \in AddSizes :
        /\ Len(addLog) < MaxAdds
        /\ hierarchy' = add_size_to_hierarchy(hierarchy, rel, size)
        /\ addLog' = Append(addLog, [rel |-> rel, size |-> size, impl |-> "scandir"])
        /\ UNCHANGED scanVars

AddMft ==
    \E rel \in AddPaths, size \in AddSizes :
        /\ Len(addLog) < MaxAdds
        /\ hierarchy' = mft_add_size_to_hierarchy(hierarchy, rel, size)
        /\ addLog' = Append(addLog, [rel |-> rel, size |-> size, impl |-> "mft"])
        /\ UNCHANGED scanVars

NextAdd == AddScandir \/ AddMft

SpecAdd == InitAdd /\ [][NextAdd]_vars

(***************************************************************************)
(* Specification SpecAddSteps: the adds of SpecAdd statement by statement, *)
(* as the UI thread can see the shared hierarchy between two statements of *)
(* the worker                                                              *)
(***************************************************************************)
\* _add_size_to_hierarchy is entered (line 116; the two copies are alike)
BeginAdd ==
    \E rel \in AddPaths, size \in AddSizes, impl \in {"scandir", "mft"} :
        /\ ~adding.active
        /\ Len(addLog) < MaxAdds
        /\ adding' = [active |-> TRUE, rel |-> rel, size |-> size, impl |-> impl,
                      todo |-> PartsToCredit(rel), at |-> <<>>, got |-> FALSE]
        /\ UNCHANGED <<hierarchy, addLog, fs, faults, env, options, pc, backend,
                       stack, error_count, file_count, folder_count,
                       scanned_size, largest_file, file_type_stats, entries,
                       dir_compact, all_dir_refs, processed_dirs, result, ui,
                       hist, events, app, treemap, estimator, mft, handles>>

\* lines 118 and 123: setdefault gives the node of the next name, inserting
\* a new one when the name is not in the map
AddSetDefault ==
    /\ adding.active
    /\ ~adding.got
    /\ hierarchy' = SetDefaultAt(hierarchy, adding.at, Head(adding.todo))
    /\ adding' = [adding EXCEPT !.got = TRUE]
    /\ UNCHANGED <<addLog, fs, faults, env, options, pc, backend,
                   stack, error_count, file_count, folder_count,
                   scanned_size, largest_file, file_type_stats, entries,
                   dir_compact, all_dir_refs, processed_dirs, result, ui,
                   hist, events, app, treemap, estimator, mft, handles>>

\* lines 119 and 124-125: the node is credited and the walk goes down, or
\* the function returns after the last name
AddCredit ==
    /\ adding.active
    /\ adding.got
    /\ hierarchy' = CreditAt(hierarchy, Append(adding.at, Head(adding.todo)),
                             adding.size)
    /\ IF Len(adding.todo) = 1
       THEN /\ adding' = NoAdd
            /\ addLog' = Append(addLog, [rel |-> adding.rel, size |-> adding.size,
                                         impl |-> adding.impl])
       ELSE /\ adding' = [adding EXCEPT !.todo = Tail(@),
                                        !.at = Append(@, Head(adding.todo)),
                                        !.got = FALSE]
            /\ UNCHANGED addLog
    /\ UNCHANGED <<fs, faults, env, options, pc, backend,
                   stack, error_count, file_count, folder_count,
                   scanned_size, largest_file, file_type_stats, entries,
                   dir_compact, all_dir_refs, processed_dirs, result, ui,
                   hist, events, app, treemap, estimator, mft, handles>>

NextAddSteps == BeginAdd \/ AddSetDefault \/ AddCredit

SpecAddSteps == InitAdd /\ [][NextAddSteps]_vars

(***************************************************************************)
(* Claims about the hierarchy                                              *)
(***************************************************************************)
\* C1: after any sequence of adds on an empty hierarchy, every node's total
\* equals the sizes of the files placed directly under it plus the totals of
\* the nodes in its children map.
C1_TotalIsFilesPlusChildren ==
    \A p \in NodePaths(hierarchy) :
        NodeAt(hierarchy, p).total
            = SumSizes(addLog, p) + SumTotals(NodeAt(hierarchy, p).children)

\* C3: add never inserts a node named after the file itself: every node is a
\* directory component of some added path.
C3_NodesAreDirectories ==
    \A p \in NodePaths(hierarchy) :
        \E i \in 1..Len(addLog) :
            /\ Len(p) <= Len(DirPartsOf(addLog[i].rel))
            /\ p = SubSeq(DirPartsOf(addLog[i].rel), 1, Len(p))

\* C4: applying the same (path, size) pairs in any order to an empty
\* hierarchy yields the same tree.
C4_OrderIndependent ==
    \A perm \in Permutations(1..Len(addLog)) :
        ApplyAll(EmptyDict, [i \in 1..Len(addLog) |-> addLog[perm[i]]])
            = hierarchy

\* two adds of different sizes meeting in one directory, one below the other
C4_Witness ==
    /\ Len(addLog) >= 2
    /\ \E i, j \in 1..Len(addLog) :
          /\ addLog[i].size # addLog[j].size
          /\ DirPartsOf(addLog[i].rel) = <<<<"a">>>>
          /\ DirPartsOf(addLog[j].rel) = <<<<"a">>, <<"b">>>>
    /\ <<<<"a">>, <<"b">>>> \in NodePaths(hierarchy)

(***************************************************************************)
(* What a scan of the tree is to find, stated on the tree itself           *)
(***************************************************************************)
Finished == pc \in {"returned", "done"}

\* the full path of the entry with components d
FullPathOf(d) ==
    IF d = <<>> THEN options.path
    ELSE RStripSeps(options.path) \o <<SEP>> \o JoinParts(d)

\* case-insensitive containment of some (non-blank) pattern in the path
MatchesAnyPattern(path) ==
    \E i \in 1..Len(options.exclude_patterns) :
        LET pat == Strip(options.exclude_patterns[i])
        IN  /\ pat # <<>>
            /\ \E k \in 0..(Len(path) - Len(pat)) :
                  \A j \in 1..Len(pat) : LowerChar(path[k + j]) = LowerChar(pat[j])

EntryOf(at) ==
    fs.entries[CHOOSE i \in 1..Len(fs.entries) : EntryAt(fs.entries[i]) = at]

AllEntries == { EntryAt(fs.entries[i]) : i \in 1..Len(fs.entries) }
AllFiles == { at \in AllEntries : EntryOf(at).kind = "file" }
AllFolders == { at \in AllEntries : EntryOf(at).kind # "file" }

Parent(at) == SubSeq(at, 1, Len(at) - 1)

IsPrefix(p, q) == Len(p) <= Len(q) /\ SubSeq(q, 1, Len(p)) = p

\* the non-empty prefixes of d: the directories on the way to d, d included
Ancestors(d) == { SubSeq(d, 1, k) : k \in 1..Len(d) }

\* some directory on the way to (and including) d matches an exclusion pattern
UnderExcluded(d) == \E a \in Ancestors(d) : MatchesAnyPattern(FullPathOf(a))

RECURSIVE SumOfFiles(_)
SumOfFiles(S) ==
    IF S = {} THEN 0
    ELSE LET at == CHOOSE x \in S : TRUE
         IN  EntryOf(at).size + SumOfFiles(S \ {at})

\* the directories on which the generic walker calls os.scandir
RECURSIVE WalkerEnumerates(_)
WalkerEnumerates(d) ==
    IF d = <<>> THEN TRUE
    ELSE /\ d \in AllFolders
         /\ WalkerEnumerates(Parent(d))
         /\ ~ScandirRaises(FullPathOf(Parent(d)))
         /\ ~Raises("is_dir", d)
         /\ ~MatchesAnyPattern(FullPathOf(d))
         /\ ~(EntryOf(d).kind = "junction" /\ ~Raises("stat", d))
         /\ (options.max_depth # <<>> => Len(d) <= options.max_depth[1])

WalkerListsOk(d) == WalkerEnumerates(d) /\ ~ScandirRaises(FullPathOf(d))

\* the errors the generic walker meets
WalkerErrors ==
    { [op |-> "scandir", at |-> d] :
        d \in { x \in AllFolders \cup {<<>>} :
                  WalkerEnumerates(x) /\ ScandirRaises(FullPathOf(x)) } }
    \cup { [op |-> "is_dir", at |-> e] :
        e \in { x \in AllEntries : WalkerListsOk(Parent(x)) /\ Raises("is_dir", x) } }
    \cup { [op |-> "stat", at |-> e] :
        e \in { x \in AllFiles :
                  /\ WalkerListsOk(Parent(x))
                  /\ ~Raises("is_dir", x)
                  /\ ~MatchesAnyPattern(FullPathOf(x))
                  /\ Raises("stat", x) } }

\* the directory references Stage B knows: directories reached from the root
\* through directories that are no reparse points and bear no $ name
MftKnows(d) ==
    \A a \in Ancestors(d) :
        /\ a \in AllFolders
        /\ EntryOf(a).kind = "dir"
        /\ ~StartsWith(EntryOf(a).name, "$")

\* the directories Stage C lists
MftEnumerates(d) ==
    /\ d = <<>> \/ MftKnows(d)
    /\ ~MatchesAnyPattern(IF d = <<>> THEN RStripSeps(options.path) ELSE FullPathOf(d))

MftListsOk(d) == MftEnumerates(d) /\ ~ScandirRaises(FullPathOf(d))

MftErrors ==
    { [op |-> "scandir", at |-> d] :
        d \in { x \in AllFolders \cup {<<>>} :
                  MftEnumerates(x) /\ ScandirRaises(FullPathOf(x)) } }
    \cup { [op |-> "stat", at |-> e] :
        e \in { x \in AllEntries : MftListsOk(Parent(x)) /\ Raises("stat", x) } }

\* the files lying in a directory the running backend lists
FilesInListedDirs ==
    { f \in AllFiles :
        IF backend = "mft" THEN MftEnumerates(Parent(f))
        ELSE WalkerEnumerates(Parent(f)) }

(***************************************************************************)
(* Claims about a scan                                                     *)
(***************************************************************************)
ExampleHierarchy ==
    [k \in { <<"a">>, <<"b">> } |->
        [total |-> IF k = <<"a">> THEN 150 ELSE 10, children |-> EmptyDict]]

C5_FallbackRunsWalkerOnce ==
    /\ hist.mftInvoked => (env.platform = "Windows" /\ env.probe = "ok")
    /\ backend = "mft" => hist.mftInvoked
    /\ ui # "failed"
    /\ hist.mftRaised =>
          /\ hist.walkRuns = 1
          /\ hist.walkStartHier = hist.raiseHier
          /\ backend = "scandir"
          /\ pc \in {"walk", "returned", "done"}
          /\ Finished =>
                /\ result # <<>>
                /\ result[1].scan_method = "scandir"
                /\ result[1].error_count = error_count
                /\ result[1].stats.file_count = file_count

\* the backend raised in Stage C with files already added, and the scan ended
C5_Witness ==
    /\ pc = "done"
    /\ ui = "finished"
    /\ hist.mftRaised
    /\ hist.raisedAt = "mft_C"
    /\ hist.raiseHier # EmptyDict
    /\ result[1].scan_method = "scandir"

\* the bytes a result reports: its per-type total sizes
RECURSIVE SumTypeSizes(_)
SumTypeSizes(stats) ==
    IF DOMAIN stats = {} THEN 0
    ELSE LET k == CHOOSE x \in DOMAIN stats : TRUE
         IN  stats[k].total_size + SumTypeSizes([j \in (DOMAIN stats) \ {k} |-> stats[j]])

\* the sizes of the files at or below the entry with components p
SizeBeneath(p) == SumOfFiles({ f \in AllFiles : IsPrefix(p, f) })

\* C6: after a failure in Stage C with files already added and the restart
\* with the generic walker on the same hierarchy, no file is counted twice:
\* every total is at most the sizes of the files beneath the node, and the
\* root-level totals sum to the bytes the returned statistics report.
C6_NoDoubleCounting ==
    (Finished /\ hist.mftRaised /\ hist.raisedAt = "mft_C"
              /\ hist.raiseHier # EmptyDict) =>
        /\ \A p \in NodePaths(hierarchy) :
              NodeAt(hierarchy, p).total <= SizeBeneath(p)
        /\ SumTotals(hierarchy) = SumTypeSizes(result[1].stats.file_type_stats)

\* C7: when both backends fail totally (the root path does not exist), the
\* scan ends in a terminal failure reported to the caller, never in a
\* successful ScanResult with zero files.
C7_MissingRootFails ==
    ~fs.exists =>
        /\ result = <<>>
        /\ ui # "finished"

\* C8: every per-entry error (enumerating a directory, classifying an entry,
\* stat of a file) adds exactly one to error_count and does not abort the
\* scan: the backend still processes every other directory and returns.
C8_ErrorsCountedScanContinues ==
    /\ error_count = Cardinality(hist.hit)
    /\ (pc = "walk" /\ stack = <<>>) \/ (backend = "scandir" /\ Finished) =>
          /\ hist.hit = WalkerErrors
          /\ hist.listed = { d \in AllFolders \cup {<<>>} : WalkerEnumerates(d) }
    /\ (pc = "mft_C" /\ all_dir_refs = <<>>) \/ (backend = "mft" /\ Finished) =>
          /\ hist.hit = MftErrors
          /\ hist.listed = { d \in AllFolders \cup {<<>>} : MftEnumerates(d) }
          /\ processed_dirs = Len(dir_compact) + 1
    /\ Finished =>
          /\ result # <<>>
          /\ result[1].error_count = Cardinality(hist.hit)

\* a scan that met an error in a directory and went on to count files of
\* directories processed after it
C8_Witness ==
    /\ pc = "done"
    /\ fs = TreeMixed
    /\ faults # {}
    /\ result[1].error_count = 1
    /\ hist.hit = faults
    /\ result[1].stats.file_count >= 2

\* C9: a directory whose full path matches an exclusion pattern is pruned by
\* either backend: it is not enumerated, neither it nor a descendant is a
\* hierarchy node or contributes a counted file, and folder_count does not
\* count it.
C9_ExcludedDirectoryPruned ==
    (Finished /\ ~hist.mftRaised) =>
        /\ \A d \in AllFolders :
              UnderExcluded(d) =>
                  /\ d \notin hist.listed
                  /\ d \notin NodePaths(hierarchy)
                  /\ \A f \in hist.counted : ~IsPrefix(d, f)
        /\ result[1].stats.folder_count
              <= Cardinality({ d \in AllFolders : ~UnderExcluded(d) })
        /\ (fs = TreeExample /\ hist.hit = {}
              /\ options.exclude_patterns = << <<"b">> >>) =>
              /\ DOMAIN hierarchy = { <<"a">> }
              /\ hierarchy[<<"a">>].total = 150
              /\ result[1].stats.folder_count = 1

\* C10: exclusion matching is case-insensitive substring containment in the
\* full path, and a file whose full path matches a pattern is skipped by
\* whichever backend runs: it is not counted and adds nothing to the
\* statistics or the hierarchy.
C10_ExcludedFileSkipped ==
    /\ \A at \in AllEntries :
          /\ match_exclude(FullPathOf(at), options.exclude_patterns)
                <=> MatchesAnyPattern(FullPathOf(at))
          /\ mft_match_exclude(FullPathOf(at), options.exclude_patterns)
                <=> MatchesAnyPattern(FullPathOf(at))
    /\ \A f \in AllFiles :
          MatchesAnyPattern(FullPathOf(f)) =>
              /\ f \notin hist.counted
              /\ largest_file # <<>> => largest_file[1].name # EntryOf(f).name
(***************************************************************************)
(* Claims about progress and the worker                                    *)
(***************************************************************************)
\* C11: every progress event delivered before the scan completes carries a
\* ratio in [0, 0.999]; a ratio of 1.0 is delivered exactly once, as the last
\* event of a completed scan
C11_RatiosBelowOneUntilCompletion ==
    /\ \A i \in 1..Len(events) :
          IF RatEq(events[i].ratio, Rat(1, 1))
          THEN i = Len(events) /\ Finished
          ELSE /\ RatLe(Rat(0, 1), events[i].ratio)
               /\ RatLe(events[i].ratio, Rat(999, 1000))
    /\ Finished => /\ events # <<>>
                   /\ RatEq(events[Len(events)].ratio, Rat(1, 1))

\* a completed accelerated scan whose Stage C reported progress, and a
\* completed walk whose ratio reached the clamp
C11_Witness ==
    /\ Finished
    /\ \E i \in 1..Len(events) :
          /\ ~events[i].phase
          /\ RatLt(Rat(3, 100), events[i].ratio)
          /\ RatLt(events[i].ratio, Rat(1, 1))
    /\ hist.mftInvoked /\ ~hist.mftRaised

\* every node of h is a node of g, with a total that is not smaller
GrowsInto(h, g) ==
    \A p \in NodePaths(h) :
        /\ p \in NodePaths(g)
        /\ NodeAt(g, p).total >= NodeAt(h, p).total

\* C13: between two successive states of a scan no node of the shared
\* hierarchy is removed and no total decreases, and once the scan has
\* completed the hierarchy is not mutated again
C13_HierarchyGrowsThenFrozen ==
    [][ /\ GrowsInto(hierarchy, hierarchy')
        /\ Finished => hierarchy' = hierarchy ]_vars

\* a completed scan whose walker ran on a hierarchy the failed accelerated
\* attempt had already populated
C13_Witness ==
    /\ pc = "done"
    /\ hist.mftRaised
    /\ hist.raiseHier # EmptyDict
    /\ hierarchy # hist.raiseHier

\* the largest size among the files of a non-empty sequence
MaxSizeOf(ord) ==
    LET i == CHOOSE j \in 1..Len(ord) :
                 \A k \in 1..Len(ord) : EntryOf(ord[k]).size <= EntryOf(ord[j]).size
    IN  EntryOf(ord[i]).size

\* the first file of the sequence that has the largest size
FirstLargestOf(ord) ==
    LET i == CHOOSE j \in 1..Len(ord) :
                 /\ EntryOf(ord[j]).size = MaxSizeOf(ord)
                 /\ \A k \in 1..(j - 1) : EntryOf(ord[k]).size < MaxSizeOf(ord)
    IN  ord[i]

\* C14: at the end of a scan largest_file is the counted file of maximal
\* size, the first one encountered when several share the maximum, and it is
\* absent exactly when no file was counted
C14_LargestFileFirstSeenMaximum ==
    Finished =>
        LET lf == result[1].stats.largest_file
        IN  /\ (lf = <<>>) <=> (hist.order = <<>>)
            /\ hist.order # <<>> =>
                  /\ lf[1].size = MaxSizeOf(hist.order)
                  /\ ComponentsOf(lf[1].path) = FirstLargestOf(hist.order)
                  /\ lf[1].name = EntryOf(FirstLargestOf(hist.order)).name

\* a completed scan that counted two files of the maximal size, the record
\* being the earlier one, which is not the first file counted
C14_Witness ==
    /\ Finished
    /\ Len(hist.order) >= 3
    /\ \E i, j \in 1..Len(hist.order) :
          /\ 1 < i /\ i < j
          /\ EntryOf(hist.order[i]).size = MaxSizeOf(hist.order)
          /\ EntryOf(hist.order[j]).size = MaxSizeOf(hist.order)
          /\ EntryOf(hist.order[1]).size < MaxSizeOf(hist.order)
          /\ ComponentsOf(result[1].stats.largest_file[1].path) = hist.order[i]

\* C12: at most one scan worker is alive at any time: a click made while the
\* worker is alive starts no worker, leaves the live hierarchy and the
\* progress state as they are, and only shows a message
C12_OneWorkerClickRejected ==
    [][ /\ app'.workers <= 1
        /\ (app'.clicks # app.clicks /\ is_alive) =>
              /\ app'.workers = app.workers
              /\ app'.progress_updater_running = app.progress_updater_running
              /\ app'.posted = app.posted
              /\ UNCHANGED <<hierarchy, events, pc, backend, options, result,
                             stack, file_count, folder_count, scanned_size>> ]_vars

\* a second scan is running, started by a click after the first worker had
\* ended, and a click made during it was rejected with files already in the
\* hierarchy
C12_Witness ==
    /\ app.clicks - app.rejected >= 1
    /\ app.rejected >= 1
    /\ pc = "walk"
    /\ hierarchy # EmptyDict
    /\ app.workers = 1

(***************************************************************************)
(* Claims about the squarified layout                                      *)
(***************************************************************************)
\* the items build_treemap keeps, in input order
Remaining == SelectSeq(treemap.items, LAMBDA it : it.size > 0)

\* the i-th node carries label, size and payload of the i-th remaining item
BoundInOrder ==
    /\ Len(treemap.nodes) = Len(Remaining)
    /\ \A i \in 1..Len(Remaining) :
          /\ treemap.nodes[i].label = Remaining[i].label
          /\ treemap.nodes[i].size = Rat(Remaining[i].size, 1)
          /\ treemap.nodes[i].data = Remaining[i].data

\* C15: build_treemap drops the items of size <= 0 and, for the N
\* remaining items and any target width and height, returns exactly N nodes,
\* the i-th carrying label, size and payload of the i-th remaining item
C15_NodesForAnyRectangle ==
    treemap.called => BoundInOrder

\* C16: whatever the items and the target rectangle are, every rectangle
\* the layout emits has a positive width and a positive height
C16_EmittedRectanglesPositive ==
    treemap.called =>
        \A i \in 1..Len(treemap.nodes) :
            /\ RatLt(Zero, treemap.nodes[i].width)
            /\ RatLt(Zero, treemap.nodes[i].height)

\* a call whose rows have a negative sum (negative width, positive height):
\* nothing is emitted
C16_Witness ==
    /\ treemap.called
    /\ Len(Remaining) >= 2
    /\ treemap.width < 0 /\ treemap.height > 0
    /\ treemap.nodes = <<>>

AreaOf(node) == RatMul(node.width, node.height)

RECURSIVE SumAreas(_)
SumAreas(nodes) ==
    IF nodes = <<>> THEN Zero ELSE RatAdd(AreaOf(Head(nodes)), SumAreas(Tail(nodes)))

RECURSIVE SumWidths(_)
SumWidths(nodes) ==
    IF nodes = <<>> THEN Zero ELSE RatAdd(Head(nodes).width, SumWidths(Tail(nodes)))

TotalSize == SumInt([i \in 1..Len(treemap.items) |-> treemap.items[i].size])

\* C17: for positive sizes and a rectangle of positive width and height the
\* areas sum to width * height and area_i = size_i / total * width * height;
\* 50, 30, 20 in 100 x 10 give three rectangles whose widths sum to 100
C17_AreasProportional ==
    /\ ( /\ treemap.called
         /\ treemap.items # <<>>
         /\ \A i \in 1..Len(treemap.items) : treemap.items[i].size > 0
         /\ treemap.width > 0 /\ treemap.height > 0 )
       => /\ Len(treemap.nodes) = Len(treemap.items)
          /\ RatEq(SumAreas(treemap.nodes),
                   Rat(treemap.width * treemap.height, 1))
          /\ \A i \in 1..Len(treemap.nodes) :
                RatEq(AreaOf(treemap.nodes[i]),
                      Rat(treemap.items[i].size * treemap.width * treemap.height,
                          TotalSize))
    /\ (treemap.called /\ treemap.items = ExampleCall.items
           /\ treemap.width = 100 /\ treemap.height = 10)
       => /\ Len(treemap.nodes) = 3
          /\ RatEq(SumWidths(treemap.nodes), Rat(100, 1))

\* the example call has returned
C17_Witness ==
    /\ treemap.called
    /\ treemap.items = ExampleCall.items
    /\ treemap.width = 100
    /\ Len(treemap.nodes) = 3

\* the interiors of two rectangles meet
Overlap(a, b) ==
    /\ RatLt(a.x, RatAdd(b.x, b.width))
    /\ RatLt(b.x, RatAdd(a.x, a.width))
    /\ RatLt(a.y, RatAdd(b.y, b.height))
    /\ RatLt(b.y, RatAdd(a.y, a.height))

\* C18: the rectangles of one call are pairwise non-overlapping and each
\* lies inside [0, width] x [0, height]
C18_DisjointInsideTarget ==
    treemap.called =>
        /\ \A i, j \in 1..Len(treemap.nodes) :
              i # j => ~Overlap(treemap.nodes[i], treemap.nodes[j])
        /\ \A i \in 1..Len(treemap.nodes) :
              LET n == treemap.nodes[i]
              IN  /\ RatLe(Zero, n.x)
                  /\ RatLe(Zero, n.y)
                  /\ RatLe(RatAdd(n.x, n.width), Rat(treemap.width, 1))
                  /\ RatLe(RatAdd(n.y, n.height), Rat(treemap.height, 1))

\* a layout of three rectangles with a horizontal row followed by a
\* vertical one
C18_Witness ==
    /\ treemap.called
    /\ Len(treemap.nodes) = 3
    /\ treemap.nodes[1].y = Zero
    /\ RatLt(Zero, treemap.nodes[2].y)
    /\ RatLt(treemap.nodes[2].y, treemap.nodes[3].y)
    /\ treemap.nodes[2].x = treemap.nodes[3].x

(***************************************************************************)
(* Claims about the ETA                                                    *)
(***************************************************************************)
\* the sample the last update appended, and the oldest one it retained
LastSample == estimator.history[Len(estimator.history)]

OldestSample == estimator.history[1]

\* C19: a numeric remaining time is reported only when the ratio is >= 0.05
\* and the oldest sample retained in the 15-second window is at least 10
\* seconds old; otherwise "estimating" is reported, and a stream that stays
\* at 0 never gets a numeric ETA
C19_NumericOnlyWhenSettled ==
    estimator.updates > 0 =>
        /\ estimator.eta.numeric =>
              /\ LastSample.r >= MinRatioForEta
              /\ LastSample.t - OldestSample.t >= MinAgeTicks
              /\ LastSample.t - OldestSample.t <= WindowTicks
        /\ ~estimator.eta.numeric => estimator.eta = Estimating
        /\ (estimator.stream.rate = 0 /\ estimator.stream.jump_to = 0) =>
              ~estimator.eta.numeric

\* a numeric ETA on the stream that jumps from 0 to 0.6
C19_Witness ==
    /\ estimator.updates > 0
    /\ estimator.eta.numeric
    /\ estimator.stream.jump_to > 0
    /\ estimator.running

IsLinear == estimator.stream.rate > 0 /\ estimator.stream.jump_to = 0

\* (1 - ratio) / rate at the last sample, in ticks
TrueRemaining == Norm(RatioScale - LastSample.r, estimator.stream.rate)

\* the estimate is within one sample interval of the true remaining time
WithinOneInterval ==
    /\ RatLe(RatSub(estimator.eta.remaining, TrueRemaining), Rat(UpdateEvery, 1))
    /\ RatLe(RatSub(TrueRemaining, estimator.eta.remaining), Rat(UpdateEvery, 1))

RefsOf(d) == { d[i].ref : i \in 1..Len(d) }

\* the references with a chain of parent links to the root reference on
\* which no name begins with "$": the least set closed under "my parent is
\* the root or in the set, and my name is not a metadata name"
RECURSIVE ReachableFrom(_, _)
ReachableFrom(table, S) ==
    LET more == { r \in RefsOf(table) :
                    /\ ~StartsWith(GetRef(table, r).name, "$")
                    /\ GetRef(table, r).parent_ref \in S \cup {NTFS_ROOT_REF} }
    IN  IF more \subseteq S THEN S ELSE ReachableFrom(table, S \cup more)

\* the names on the chain of r, from the child of the root down to r
RECURSIVE ChainNames(_, _)
ChainNames(table, r) ==
    IF r = NTFS_ROOT_REF \/ ~HasRef(table, r) THEN <<>>
    ELSE ChainNames(table, GetRef(table, r).parent_ref) \o <<GetRef(table, r).name>>

\* C21: after Stage B the directory map holds exactly the references that
\* reach the root reference through parent links on which no name begins
\* with "$", and every reference resolves to the root path followed by the
\* names of its chain from the root down; the single record 12 "Projects"
\* below the root resolves to R:\Projects.
C21_MapIsReachableAndResolves ==
    mft.stage = "C" =>
        /\ RefsOf(dir_compact) = ReachableFrom(mft.table, {})
        /\ \A i \in 1..Len(mft.resolved) :
              LET ref == mft.resolved[i].ref
              IN  /\ ref \in RefsOf(dir_compact) \cup {NTFS_ROOT_REF}
                  /\ mft.resolved[i].path =
                        IF ref = NTFS_ROOT_REF THEN <<"R", ":">>
                        ELSE <<"R", ":", SEP>> \o JoinParts(ChainNames(mft.table, ref))
        /\ (mft.volume = <<Response(TRUE, 88, 100, <<RProjects>>)>>
              /\ all_dir_refs = <<>>)
           => mft.resolved =
                << [ref |-> NTFS_ROOT_REF, path |-> <<"R", ":">>],
                   [ref |-> 12, path |-> <<"R", ":", SEP>> \o Projects] >>

\* the Projects record alone has been resolved, and so has a chain of two
\* directories beside a skipped metadata directory with a child
C21_Witness ==
    /\ mft.stage = "C"
    /\ all_dir_refs = <<>>
    /\ \/ mft.volume = <<Response(TRUE, 88, 100, <<RProjects>>)>>
       \/ /\ RefsOf(dir_compact) = {12, 13}
          /\ {11, 15} \subseteq RefsOf(mft.table)
          /\ \E i \in 1..Len(mft.resolved) :
                mft.resolved[i].path = <<"R", ":", SEP>> \o Projects \o <<SEP, "x">>

\* C22: Stage B takes every directory reference off its queue at most once,
\* whatever the flat record table holds.
C22_EachReferenceVisitedOnce ==
    mft.stage # "idle" => mft.revisited = {}

\* the malformed-first-record test of lines 164-165 on a batch
FirstRecordMalformed(resp) ==
    /\ resp.records # <<>>
    /\ \/ resp.records[1].rec_len = 0
       \/ CursorBytes + resp.records[1].rec_len > resp.returned

\* the call gives no record data
NoData(resp) == ~resp.ok \/ resp.returned <= CursorBytes

\* C23: the first request of Stage A uses cursor 0, every later one the next
\* reference number of the batch before it; the enumeration stops at the
\* first request that fails or returns no record data and at no other; a
\* batch whose first record is malformed adds no record and does not stop
\* the enumeration.
C23_CursorFollowsBatches ==
    [][ mft'.stage = "A" =>
          LET st  == mft'.st
              n   == Len(st.requests)
          IN  /\ n >= 1 => st.requests[1] = 0
              /\ \A i \in 2..n :
                    st.requests[i] = Answer(mft.volume, i - 1).next_ref
              /\ \A i \in 1..(n - 1) : ~NoData(Answer(mft.volume, i))
              /\ st.stopped <=> (n >= 1 /\ NoData(Answer(mft.volume, n)))
              /\ (n = Len(mft.st.requests) + 1
                    /\ FirstRecordMalformed(Answer(mft.volume, n))
                    /\ ~NoData(Answer(mft.volume, n)))
                 => /\ st.table = mft.st.table
                    /\ ~st.stopped
                    /\ st.batch_count = mft.st.batch_count + 1 ]_vars

\* a batch with a malformed first record has been followed by another request
C23_Witness ==
    /\ mft.stage = "A"
    /\ Len(mft.st.requests) >= 3
    /\ FirstRecordMalformed(Answer(mft.volume, 2))
    /\ mft.st.requests[3] = Answer(mft.volume, 2).next_ref
    /\ mft.st.table # <<>>
    /\ mft.st.stopped

\* the progress events the accelerated backend has emitted in Stages A and B
\* carry a phase message, those of Stage C the directory just listed
StageABEvents == SelectSeq(events, LAMBDA e : e.phase)

StageCEvents ==
    SelectSeq(events, LAMBDA e : ~e.phase /\ ~RatEq(e.ratio, Rat(1, 1)))

\* 0.03 + 0.969 * p / total, capped at 0.999
ReservedRatio(p, total) ==
    RatMin(Rat(999, 1000),
           RatAdd(Rat(3, 100), RatMul(Rat(969, 1000), Rat(p, total))))

\* C24: while the accelerated backend runs, every progress event of Stages A
\* and B has a ratio of at most 0.03, every Stage C event has the ratio
\* min(0.999, 0.03 + 0.969 * processed / total) with total = known
\* directories + 1, the ratios never decrease, and Stage C ratios lie in
\* (0.03, 0.999].
C24_AcceleratedRatios ==
    [][ (backend' = "mft" /\ ~hist'.mftRaised) =>
          /\ \A i \in 1..Len(StageABEvents') :
                RatLe(StageABEvents'[i].ratio, Rat(3, 100))
          /\ \A i \in 1..Len(StageCEvents') :
                /\ RatLt(Rat(3, 100), StageCEvents'[i].ratio)
                /\ RatLe(StageCEvents'[i].ratio, Rat(999, 1000))
          /\ \A i \in 1..(Len(events') - 1) :
                RatLe(events'[i].ratio, events'[i + 1].ratio)
          /\ (pc = "mft_C" /\ pc' = "mft_C" /\ Len(events') = Len(events) + 1)
             => /\ ~events'[Len(events')].phase
                /\ RatEq(events'[Len(events')].ratio,
                         ReservedRatio(processed_dirs', Len(dir_compact) + 1)) ]_vars

\* an accelerated run has reported 0.0, 0.01 twice, 0.02, 0.03, the ratio of
\* 15 directories out of 16, and 1.0
C24_Witness ==
    /\ backend = "mft"
    /\ ~hist.mftRaised
    /\ pc = "returned"
    /\ Len(events) = 7
    /\ RatEq(events[1].ratio, Rat(0, 1))
    /\ RatEq(events[2].ratio, Rat(1, 100))
    /\ RatEq(events[3].ratio, Rat(1, 100))
    /\ RatEq(events[4].ratio, Rat(2, 100))
    /\ RatEq(events[5].ratio, Rat(3, 100))
    /\ RatEq(events[6].ratio, Rat(15015, 16000))
    /\ RatEq(events[7].ratio, Rat(1, 1))

(***************************************************************************)
(* Claims about volume handles                                             *)
(***************************************************************************)
InsideScanMft == pc \in {"mft_A", "mft_B", "mft_C"}

\* C30: no volume handle is closed twice; a handle opened by can_use_mft is
\* closed when can_use_mft has answered; the handle of scan_mft is open only
\* while control is inside scan_mft, so none is open when scan_mft has
\* returned or the generic walker runs after an error in Stage A, B or C.
C30_HandlesClosedOnce ==
    /\ \A i \in 1..Len(handles) :
          /\ handles[i].closes <= 1
          /\ handles[i].by = "can_use_mft" => handles[i].closes = 1
          /\ (handles[i].by = "scan_mft" /\ handles[i].closes = 0)
             => (i = Len(handles) /\ InsideScanMft)
    /\ InsideScanMft =>
          /\ handles # <<>>
          /\ handles[Len(handles)] = [by |-> "scan_mft", closes |-> 0]
    /\ (hist.mftInvoked /\ env.probe = "ok" /\ pc # "start") => handles # <<>>

\* the dispatcher has fallen back after an error in Stage C: both handles
\* were opened and both are closed
C30_Witness ==
    /\ hist.mftRaised
    /\ hist.raisedAt = "mft_C"
    /\ backend = "scandir"
    /\ handles = << [by |-> "can_use_mft", closes |-> 1],
                    [by |-> "scan_mft", closes |-> 1] >>

(***************************************************************************)
(* Claims about the worklist of the generic walker                         *)
(***************************************************************************)
\* the depth of a directory below the scan root: its number of components
TooDeep(components) ==
    options.max_depth # <<>> /\ Len(components) > options.max_depth[1]

\* C25: a directory deeper than max_depth leaves the worklist without being
\* enumerated: no count, no type statistics, no hierarchy node and no error
\* comes from it, and nothing is pushed for it; a directory that is not
\* deeper is enumerated; with max_depth absent none is skipped. Hence no
\* file below a too deep directory is ever counted.
C25_DeepDirectoriesSkipped ==
    [][ (pc = "walk" /\ pc' = "walk" /\ stack # <<>>) =>
          LET current == ComponentsOf(stack[Len(stack)])
          IN  /\ TooDeep(current) =>
                   /\ stack' = SubSeq(stack, 1, Len(stack) - 1)
                   /\ current \notin hist'.listed
                   /\ UNCHANGED <<hierarchy, error_count, file_count,
                                  folder_count, scanned_size, largest_file,
                                  file_type_stats, events>>
              /\ ~TooDeep(current) => current \in hist'.listed
              /\ \A f \in hist'.counted : ~TooDeep(SubSeq(f, 1, Len(f) - 1))
              /\ \A h \in hist'.hit :
                    ~TooDeep(IF h.op = "scandir" THEN h.at
                             ELSE SubSeq(h.at, 1, Len(h.at) - 1)) ]_vars

\* with max_depth 1 the walker has finished: a and a\b.t were taken, a\c
\* was taken off the worklist but not listed, and z below it was not counted
C25_Witness ==
    /\ pc = "returned"
    /\ backend = "scandir"
    /\ options.max_depth = <<1>>
    /\ options.exclude_patterns = <<>>
    /\ faults = {[op |-> "scandir", at |-> << <<"a">>, <<"c">> >>]}
    /\ error_count = 0
    /\ folder_count = 3
    /\ << <<"a">> >> \in hist.listed
    /\ << <<"a">>, <<"c">> >> \notin hist.listed
    /\ << <<"a">>, <<"b", ".", "t">> >> \in hist.counted
    /\ << <<"a">>, <<"c">>, <<"z">> >> \notin hist.counted

\* C26: with follow_symlinks false no directory on the worklist of the
\* generic walker is a reparse point or matches an exclusion pattern.
C26_NoReparseOrExcludedOnWorklist ==
    (pc = "walk" /\ ~options.follow_symlinks) =>
        \A i \in 1..Len(stack) :
            LET c == ComponentsOf(stack[i])
            IN  c # <<>> =>
                  /\ EntryOf(c).kind # "junction"
                  /\ ~MatchesAnyPattern(FullPathOf(c))

(***************************************************************************)
(* Claims about what a reader of the live hierarchy sees                   *)
(***************************************************************************)
\* C27: in every state of the shared hierarchy, between any two statements
\* of an add, every node is fully formed (a total and a children map) and
\* its total is at least the sum of the totals of its children; and when
\* no add is in progress the hierarchy is what the adds made so far give.
C27_ReaderSeesConsistentTotals ==
    /\ \A p \in NodePaths(hierarchy) :
          /\ DOMAIN NodeAt(hierarchy, p) = {"total", "children"}
          /\ NodeAt(hierarchy, p).total >= SumTotals(NodeAt(hierarchy, p).children)
    /\ ~adding.active => hierarchy = ApplyAll(EmptyDict, addLog)

\* inside the add of a\b\z onto a hierarchy that holds a: a has been
\* credited, b has just been inserted with total 0
C27_Witness ==
    /\ adding.active
    /\ adding.at = << <<"a">> >>
    /\ adding.got
    /\ addLog # <<>>
    /\ NodeAt(hierarchy, << <<"a">>, <<"b">> >>) = NewNode
    /\ NodeAt(hierarchy, << <<"a">> >>).total
          > SumTotals(NodeAt(hierarchy, << <<"a">> >>).children) + adding.size

(***************************************************************************)
(* Claims about the statistics of a run                                    *)
(***************************************************************************)
RECURSIVE SumTypeCounts(_)
SumTypeCounts(stats) ==
    IF DOMAIN stats = {} THEN 0
    ELSE LET k == CHOOSE x \in DOMAIN stats : TRUE
         IN  stats[k].file_count
               + SumTypeCounts([j \in (DOMAIN stats) \ {k} |-> stats[j]])

CurrentScan == app.clicks - app.rejected + 1

\* C29: from the start of a scan until the notification of that same scan
\* has been handled, the progress updater is running.
C29_UpdaterRunsUntilOwnNotification ==
    app.handled < CurrentScan => app.progress_updater_running

====
